---- MODULE Spec2Model ----
(***************************************************************************)
(* Model of the pulperia back end: the inventory, menu, orders and cashier *)
(* services (src/services) over the entity models (src/models).            *)
(*                                                                         *)
(* Quantities and prices are floats in the source; they are modelled as    *)
(* integers (fixed-point units), so rounding is out of the model.          *)
(* Identifiers are uuid4 strings in the source; ingredient and product     *)
(* ids are drawn from small pools, order and invoice ids from a counter    *)
(* that never repeats.  A table is named by its number (one uuid each).    *)
(***************************************************************************)
EXTENDS Integers, Sequences, FiniteSets, TLC

\* ---------------------------------------------------------------- bounds
MaxPedidos == 2
MaxFacturas == 2
MaxCant == 2
MaxStock == 2
MaxPrecio == 2

\* ------------------------------------------------------ program constants
NumMesas == 10

\* products p1 and p2 use the ingredients the inventory stocks (i1, i2);
\* p3 is a product of the menu file whose recipe names an ingredient (i3)
\* the inventory never holds; "p9" is a product id no menu holds
ProdIds == {"p1", "p2"}
MenuIds == ProdIds \cup {"p3"}
IngIds == {"i1", "i2"}
Threads == {1, 2}

\* models/pedido.py EstadoPedido: the five values of the enumeration
EstadoPedido == {"PENDIENTE", "EN_PREPARACION", "LISTO", "COBRADO", "CANCELADO"}

\* state tokens a caller may send: the five names and one that is not
Tokens == EstadoPedido \cup {"listo"}

\* recipes of the products of the menu file: ordered (ingredient, amount)
\* pairs, as the insertion-ordered dict of Producto.receta
RecetaBase ==
    [p \in MenuIds |->
        IF p = "p1" THEN << [ing |-> "i1", cant |-> 1] >>
        ELSE IF p = "p2"
             THEN << [ing |-> "i1", cant |-> 1], [ing |-> "i2", cant |-> 1] >>
             ELSE << [ing |-> "i3", cant |-> 1] >>]

\* ------------------------------------------------------------- variables
VARIABLES
    productos,      \* MenuService.productos: id -> [precio, receta]
    ingredientes,   \* InventarioService.ingredientes: id -> cantidad
    pedidos,        \* PedidosService.pedidos, in insertion order
    mesas,          \* PedidosService.mesas: numero -> [ocupada, pedidos_activos]
    facturas,       \* CajaService.facturas, in insertion order
    uuid,           \* how many order ids, invoice ids and sets of table ids uuid4 has handed out
    disco,          \* the JSON documents: [menu, inventario, pedidos, facturas, usuarios]
    ret,            \* what the last service call returned
    pc,             \* per request thread: position inside _crear_pedido
    loc,            \* per request thread: the locals of _crear_pedido
    inicial,        \* the inventory the process started with
    users,          \* AuthService.users, in insertion order
    users_by_username,  \* AuthService.users_by_username: username -> place in users
    users_by_email,     \* AuthService.users_by_email: email -> place in users
    http            \* the last HTTP exchange: [endpoint, token, status, body]

vars == << productos, ingredientes, pedidos, mesas, facturas, uuid, disco,
           ret, pc, loc, inicial, users, users_by_username, users_by_email,
           http >>

\* the three collections of AuthService
usuarios == << users, users_by_username, users_by_email >>

memoria == << productos, ingredientes, pedidos, mesas, facturas >>
hilos == << pc, loc >>

\* ------------------------------------------------------- generic helpers
\* dict assignment d[k] = v
Poner(d, k, v) == [x \in (DOMAIN d) \cup {k} |-> IF x = k THEN v ELSE d[x]]

\* del d[k]
Quitar(d, k) == [x \in (DOMAIN d) \ {k} |-> d[x]]

Retorno(op, arg, ok, msg) == [op |-> op, arg |-> arg, ok |-> ok, msg |-> msg]

\* an empty dict
DictVacio == [x \in {} |-> 0]

\* a request without an Authorization header
SinToken == [sub |-> "", firma |-> "ninguna"]

\* an HTTP exchange: the endpoint asked, the bearer token sent, the status
\* code and the body answered
Respuesta(endpoint, token, status, body) ==
    [endpoint |-> endpoint, token |-> token, status |-> status, body |-> body]

\* ------------------------------------------------------------ ingredient
\* a sufficiency test that would ask for more than the amount required
hay_suficiente_estricto(cantidad, cantidad_requerida) == cantidad > cantidad_requerida

\* Ingrediente.hay_suficiente
hay_suficiente(cantidad, cantidad_requerida) == cantidad >= cantidad_requerida

\* a deduction that would take one unit whatever the amount asked
descontar_unidad(cantidad, monto) == cantidad - 1

\* a deduction that would stop at zero
descontar_con_piso(cantidad, monto) ==
    IF cantidad - monto < 0 THEN 0 ELSE cantidad - monto

\* Ingrediente.descontar, the subtraction once the check has passed
descontar(cantidad, monto) == cantidad - monto

\* Ingrediente.reponer
reponer(cantidad, monto) == cantidad + monto

\* ------------------------------------------------------------- inventory
\* Ingrediente.to_dict
Ingrediente_to_dict(id, cantidad) == [id |-> id, cantidad |-> cantidad]

\* Ingrediente.from_dict: the constructor, then the id of the document
Ingrediente_from_dict(data) == [id |-> data.id, cantidad |-> data.cantidad]

\* InventarioService.guardar_inventario: the file is rewritten with the
\* to_dict of every ingredient of the dict
guardar_inventario(d, ings) ==
    [d EXCEPT !.inventario = { Ingrediente_to_dict(i, ings[i]) : i \in DOMAIN ings }]

\* InventarioService.cargar_inventario: ingredientes[ingrediente.id] = ingrediente
cargar_inventario(doc) ==
    [i \in { Ingrediente_from_dict(x).id : x \in doc } |->
        Ingrediente_from_dict(CHOOSE x \in doc : x.id = i).cantidad]

\* InventarioService.agregar_ingrediente: a new Ingrediente has a new id
AgregarIngrediente(id, cantidad) ==
    /\ id \notin DOMAIN ingredientes
    /\ ingredientes' = Poner(ingredientes, id, cantidad)
    /\ disco' = guardar_inventario(disco, ingredientes')
    /\ ret' = Retorno("agregar_ingrediente", id, TRUE, "")
    /\ UNCHANGED << productos, pedidos, mesas, facturas, uuid, hilos, inicial, usuarios >>

\* InventarioService.reponer_stock
ReponerStock(id, cantidad) ==
    IF id \in DOMAIN ingredientes
    THEN /\ reponer(ingredientes[id], cantidad) <= MaxStock
         /\ ingredientes' = [ingredientes EXCEPT ![id] = reponer(@, cantidad)]
         /\ disco' = guardar_inventario(disco, ingredientes')
         /\ ret' = Retorno("reponer_stock", id, TRUE, "")
         /\ UNCHANGED << productos, pedidos, mesas, facturas, uuid, hilos, inicial, usuarios >>
    ELSE /\ ret' = Retorno("reponer_stock", id, FALSE, "")
         /\ UNCHANGED << memoria, uuid, disco, hilos, inicial, usuarios >>

\* InventarioService.verificar_receta: the list of shortages, one entry per
\* missing and per insufficient ingredient, in the order of the recipe
RECURSIVE faltantes_de(_, _, _)
faltantes_de(ings, orden, total) ==
    IF orden = << >> THEN << >>
    ELSE LET i == Head(orden)
             resto == faltantes_de(ings, Tail(orden), total)
         IN  IF i \notin DOMAIN ings
             THEN << [ing |-> i, motivo |-> "no existe"] >> \o resto
             ELSE IF ~hay_suficiente(ings[i], total[i])
                  THEN << [ing |-> i, motivo |-> "insuficiente"] >> \o resto
                  ELSE resto

\* a verification that would look at the first ingredient only
verificar_receta_primero(ings, orden, total) ==
    LET f == faltantes_de(ings, IF orden = << >> THEN << >> ELSE << Head(orden) >>,
                          total)
    IN  [ok |-> Len(f) = 0, faltantes |-> f]

verificar_receta(ings, orden, total) ==
    LET f == faltantes_de(ings, orden, total)
    IN  [ok |-> Len(f) = 0, faltantes |-> f]

\* ------------------------------------------------------------------ menu
\* Producto.to_dict
Producto_to_dict(id, prod) == [id |-> id, precio |-> prod.precio, receta |-> prod.receta]

\* Producto.from_dict: the constructor, which leaves the recipe empty, then
\* the id and the recipe of the document
Producto_from_dict(data) ==
    [[id |-> 0, precio |-> data.precio, receta |-> << >>]
        EXCEPT !.id = data.id, !.receta = data.receta]

\* MenuService.guardar_menu
guardar_menu(d, prods) ==
    [d EXCEPT !.menu = { Producto_to_dict(i, prods[i]) : i \in DOMAIN prods }]

\* MenuService.cargar_menu
cargar_menu(doc) ==
    [i \in { Producto_from_dict(x).id : x \in doc } |->
        LET prod == Producto_from_dict(CHOOSE x \in doc : x.id = i)
        IN  [precio |-> prod.precio, receta |-> prod.receta]]

\* MenuService.agregar_producto: productos[producto.id] = producto
AgregarProducto(id, precio, receta) ==
    /\ productos' = Poner(productos, id, [precio |-> precio, receta |-> receta])
    /\ disco' = guardar_menu(disco, productos')
    /\ ret' = Retorno("agregar_producto", id, TRUE, "")
    /\ UNCHANGED << ingredientes, pedidos, mesas, facturas, uuid, hilos, inicial, usuarios >>

\* MenuService.eliminar_producto
EliminarProducto(id) ==
    IF id \in DOMAIN productos
    THEN /\ productos' = Quitar(productos, id)
         /\ disco' = guardar_menu(disco, productos')
         /\ ret' = Retorno("eliminar_producto", id, TRUE, "")
         /\ UNCHANGED << ingredientes, pedidos, mesas, facturas, uuid, hilos, inicial, usuarios >>
    ELSE /\ ret' = Retorno("eliminar_producto", id, FALSE, "")
         /\ UNCHANGED << memoria, uuid, disco, hilos, inicial, usuarios >>

\* ---------------------------------------------------------------- orders
\* a subtotal that would leave the quantity out
subtotal_unitario(item) == item.precio_unitario

\* ItemPedido.subtotal
subtotal(item) == item.cantidad * item.precio_unitario

\* Pedido.calcular_total: sum(item.subtotal() for item in self.items)
RECURSIVE suma_subtotales(_)
suma_subtotales(items) ==
    IF items = << >> THEN 0
    ELSE subtotal(Head(items)) + suma_subtotales(Tail(items))

\* a total that would be priced from the menu of the moment
RECURSIVE suma_precios_menu(_, _)
suma_precios_menu(prods, items) ==
    IF items = << >> THEN 0
    ELSE (IF Head(items).producto_id \in DOMAIN prods
          THEN Head(items).cantidad * prods[Head(items).producto_id].precio
          ELSE 0)
         + suma_precios_menu(prods, Tail(items))

calcular_total_vivo(pedido) == suma_precios_menu(productos, pedido.items)

calcular_total(pedido) == suma_subtotales(pedido.items)

\* PedidosService.obtener_pedido: the position of the order with this id,
\* 0 for None
obtener_pedido(peds, id) ==
    IF \E k \in 1..Len(peds) : peds[k].id = id
    THEN CHOOSE k \in 1..Len(peds) : peds[k].id = id
    ELSE 0

\* crear_pedido_mesa: the linear scan for the table with this number
buscar_mesa(numero_mesa) == IF numero_mesa \in 1..NumMesas THEN numero_mesa ELSE 0

\* crear_pedido_mesa / crear_pedido_delivery: position of the first product
\* of the request that the menu does not hold, 0 when all are found
producto_no_encontrado(prods, entrada) ==
    IF \E k \in 1..Len(entrada) : entrada[k].producto_id \notin DOMAIN prods
    THEN CHOOSE k \in 1..Len(entrada) :
            /\ entrada[k].producto_id \notin DOMAIN prods
            /\ \A j \in 1..(k - 1) : entrada[j].producto_id \in DOMAIN prods
    ELSE 0

\* crear_pedido_mesa / crear_pedido_delivery: items_data, with the price and
\* the recipe the menu holds now
items_data_de(prods, entrada) ==
    [k \in 1..Len(entrada) |->
        [producto_id |-> entrada[k].producto_id,
         cantidad    |-> entrada[k].cantidad,
         precio      |-> prods[entrada[k].producto_id].precio,
         receta      |-> prods[entrada[k].producto_id].receta]]

\* _crear_pedido: the ItemPedido list
items_de(items_data) ==
    [k \in 1..Len(items_data) |->
        [producto_id     |-> items_data[k].producto_id,
         cantidad        |-> items_data[k].cantidad,
         precio_unitario |-> items_data[k].precio]]

\* an accumulation that would keep only the last item's requirement
acumular_ultimo(previo, cant_ing, cantidad) == cant_ing * cantidad

\* _crear_pedido: recetas_totales[ing_id] += cant_ing * cantidad
acumular(previo, cant_ing, cantidad) == previo + cant_ing * cantidad

\* _crear_pedido: the inner loop over one item's recipe; rt is the dict
\* recetas_totales as [orden, total] (keys in insertion order, values)
RECURSIVE acumular_receta(_, _, _)
acumular_receta(rt, receta, cantidad) ==
    IF receta = << >> THEN rt
    ELSE LET i == Head(receta).ing
             con == IF i \in DOMAIN rt.total THEN rt
                    ELSE [orden |-> Append(rt.orden, i),
                          total |-> Poner(rt.total, i, 0)]
             sig == [con EXCEPT !.total[i] = acumular(@, Head(receta).cant, cantidad)]
         IN  acumular_receta(sig, Tail(receta), cantidad)

RECURSIVE recetas_totales_de(_, _)
recetas_totales_de(rt, items_data) ==
    IF items_data = << >> THEN rt
    ELSE recetas_totales_de(
            acumular_receta(rt, Head(items_data).receta, Head(items_data).cantidad),
            Tail(items_data))

recetas_totales(items_data) ==
    recetas_totales_de([orden |-> << >>, total |-> [x \in {} |-> 0]], items_data)

\* _crear_pedido: the deduction loop, run without interruption.  A missing
\* ingredient is skipped; a failed descontar ends the loop and keeps what
\* was deducted before it
RECURSIVE descontar_todos(_, _, _)
descontar_todos(ings, orden, total) ==
    IF orden = << >> THEN [ok |-> TRUE, ings |-> ings]
    ELSE LET i == Head(orden)
         IN  IF i \notin DOMAIN ings
             THEN descontar_todos(ings, Tail(orden), total)
             ELSE IF ~hay_suficiente(ings[i], total[i])
                  THEN [ok |-> FALSE, ings |-> ings]
                  ELSE descontar_todos(
                          [ings EXCEPT ![i] = descontar(@, total[i])],
                          Tail(orden), total)

\* Pedido.__init__
Pedido(id, tipo, items, mesa_id) ==
    [id |-> id, tipo |-> tipo, items |-> items, estado |-> "PENDIENTE",
     mesa_id |-> mesa_id]

\* Mesa.__init__ gives each table a new uuid when the process starts: the id
\* of table numero in the process started after so many restarts (the number
\* itself before any restart), 0 standing for "no table"
id_de_mesa(arranque, numero) ==
    IF numero = 0 THEN 0 ELSE numero + NumMesas * arranque

\* a table that would take the order without being marked occupied
agregar_pedido_sin_ocupar(mesa, pedido_id) ==
    [ocupada |-> mesa.ocupada, pedidos_activos |-> Append(mesa.pedidos_activos, pedido_id)]

\* Mesa.agregar_pedido
agregar_pedido(mesa, pedido_id) ==
    [ocupada |-> TRUE, pedidos_activos |-> Append(mesa.pedidos_activos, pedido_id)]

\* a table update that would seat an order without a table at table 1
mesas_con_delivery(ms, mesa_id, pedido_id) ==
    IF mesa_id \in DOMAIN ms
    THEN [ms EXCEPT ![mesa_id] = agregar_pedido(@, pedido_id)]
    ELSE [ms EXCEPT ![1] = agregar_pedido(@, pedido_id)]

\* _crear_pedido: the table update of a table order
mesas_con(ms, mesa_id, pedido_id) ==
    IF mesa_id # 0 /\ mesa_id \in DOMAIN ms
    THEN [ms EXCEPT ![mesa_id] = agregar_pedido(@, pedido_id)]
    ELSE ms

\* ItemPedido.to_dict and ItemPedido.from_dict
ItemPedido_to_dict(item) ==
    [producto_id |-> item.producto_id, cantidad |-> item.cantidad,
     precio_unitario |-> item.precio_unitario]

ItemPedido_from_dict(data) ==
    [producto_id |-> data.producto_id, cantidad |-> data.cantidad,
     precio_unitario |-> data.precio_unitario]

\* Pedido.to_dict
Pedido_to_dict(pedido) ==
    [id |-> pedido.id, tipo |-> pedido.tipo,
     items |-> [k \in 1..Len(pedido.items) |-> ItemPedido_to_dict(pedido.items[k])],
     estado |-> pedido.estado, mesa_id |-> pedido.mesa_id]

\* a loader that would leave the state the constructor sets
Pedido_from_dict_sin_estado(data) ==
    [Pedido(0, data.tipo,
            [k \in 1..Len(data.items) |-> ItemPedido_from_dict(data.items[k])],
            data.mesa_id)
        EXCEPT !.id = data.id]

\* Pedido.from_dict: the constructor (a new id, state PENDIENTE), then the
\* id and the state of the document
Pedido_from_dict(data) ==
    [Pedido(0, data.tipo,
            [k \in 1..Len(data.items) |-> ItemPedido_from_dict(data.items[k])],
            data.mesa_id)
        EXCEPT !.id = data.id, !.estado = data.estado]


\* PedidosService.guardar_pedidos
guardar_pedidos(d, peds) ==
    [d EXCEPT !.pedidos = [k \in 1..Len(peds) |-> Pedido_to_dict(peds[k])]]

\* PedidosService.cargar_pedidos
cargar_pedidos(doc) == [k \in 1..Len(doc) |-> Pedido_from_dict(doc[k])]

\* PedidosService.crear_pedido_mesa (tipo "mesa") and crear_pedido_delivery
\* (tipo "delivery", numero_mesa unused), each followed by _crear_pedido,
\* run without interruption
CrearPedido(tipo, numero_mesa, entrada) ==
    LET arg   == [tipo |-> tipo, mesa |-> numero_mesa, items |-> entrada]
        mesa  == IF tipo = "mesa" THEN buscar_mesa(numero_mesa) ELSE 0
        falta == producto_no_encontrado(productos, entrada)
        datos == items_data_de(productos, entrada)
        rt    == recetas_totales(datos)
        ver   == verificar_receta(ingredientes, rt.orden, rt.total)
        des   == descontar_todos(ingredientes, rt.orden, rt.total)
        nuevo == Pedido(uuid.pedido + 1, tipo, items_de(datos),
                        id_de_mesa(uuid.arranque, mesa))
    IN
    IF tipo = "mesa" /\ mesa = 0
    THEN /\ ret' = Retorno("crear_pedido", arg, FALSE, "Mesa no encontrada")
         /\ UNCHANGED << memoria, uuid, disco, hilos, inicial, usuarios >>
    ELSE IF falta # 0
    THEN /\ ret' = Retorno("crear_pedido", arg, FALSE, "Producto no encontrado")
         /\ UNCHANGED << memoria, uuid, disco, hilos, inicial, usuarios >>
    ELSE IF rt.orden # << >> /\ ~ver.ok
    THEN /\ ret' = Retorno("crear_pedido", arg, FALSE, "Stock insuficiente")
         /\ UNCHANGED << memoria, uuid, disco, hilos, inicial, usuarios >>
    ELSE IF rt.orden # << >> /\ ~des.ok
    THEN /\ ingredientes' = des.ings
         /\ uuid' = [uuid EXCEPT !.pedido = @ + 1]
         /\ ret' = Retorno("crear_pedido", arg, FALSE, "Error al descontar inventario")
         /\ UNCHANGED << productos, pedidos, mesas, facturas, disco, hilos, inicial, usuarios >>
    ELSE /\ Len(pedidos) < MaxPedidos
         /\ ingredientes' = IF rt.orden # << >> THEN des.ings ELSE ingredientes
         /\ uuid' = [uuid EXCEPT !.pedido = @ + 1]
         /\ pedidos' = Append(pedidos, nuevo)
         /\ mesas' = mesas_con(mesas, mesa, nuevo.id)
         /\ disco' = guardar_pedidos(
                        IF rt.orden # << >>
                        THEN guardar_inventario(disco, ingredientes')
                        ELSE disco,
                        pedidos')
         /\ ret' = Retorno("crear_pedido", arg, TRUE, "Pedido creado correctamente")
         /\ UNCHANGED << productos, facturas, hilos, inicial, usuarios >>

\* Pedido.cambiar_estado on the order at position k
cambiar_estado(peds, k, nuevo_estado) == [peds EXCEPT ![k].estado = nuevo_estado]

\* a confirmation that would take an order in any state
puede_confirmarse_siempre(estado) == TRUE

\* confirmar_pedido: the state an order must be in to be confirmed
puede_confirmarse(estado) == estado = "PENDIENTE"

\* PedidosService.confirmar_pedido
ConfirmarPedido(pedido_id) ==
    LET k == obtener_pedido(pedidos, pedido_id)
    IN
    IF k = 0
    THEN /\ ret' = Retorno("confirmar_pedido", pedido_id, FALSE, "Pedido no encontrado")
         /\ UNCHANGED << memoria, uuid, disco, hilos, inicial, usuarios >>
    ELSE IF ~puede_confirmarse(pedidos[k].estado)
    THEN /\ ret' = Retorno("confirmar_pedido", pedido_id, FALSE, "Pedido ya esta en estado")
         /\ UNCHANGED << memoria, uuid, disco, hilos, inicial, usuarios >>
    ELSE /\ pedidos' = cambiar_estado(pedidos, k, "EN_PREPARACION")
         /\ disco' = guardar_pedidos(disco, pedidos')
         /\ ret' = Retorno("confirmar_pedido", pedido_id, TRUE,
                           "Pedido confirmado y en preparacion")
         /\ UNCHANGED << productos, ingredientes, mesas, facturas, uuid, hilos, inicial, usuarios >>

\* EstadoPedido(nuevo_estado): the lookup by value succeeds for the five
\* names exactly and raises ValueError otherwise
estado_valido(nuevo_estado) == nuevo_estado \in EstadoPedido

\* a state change that would treat COBRADO and CANCELADO as final
estado_tras_cambio_final(actual, nuevo_estado) ==
    IF actual \in {"COBRADO", "CANCELADO"} THEN actual ELSE nuevo_estado

\* the state cambiar_estado_pedido writes: the parsed token, whatever the
\* current state is
estado_tras_cambio(actual, nuevo_estado) == nuevo_estado

\* a state change that would give one unit of every ingredient back on
\* CANCELADO
inventario_tras_cambio_devuelve(ings, nuevo_estado) ==
    IF nuevo_estado = "CANCELADO"
    THEN [i \in DOMAIN ings |-> ings[i] + 1]
    ELSE ings

\* the inventory after cambiar_estado_pedido: the method calls
\* pedido.cambiar_estado and guardar_pedidos and nothing of the inventory
\* service, whatever the new state
inventario_tras_cambio(ings, nuevo_estado) == ings

\* PedidosService.cambiar_estado_pedido
CambiarEstadoPedido(pedido_id, nuevo_estado) ==
    LET k   == obtener_pedido(pedidos, pedido_id)
        arg == [id |-> pedido_id, token |-> nuevo_estado]
    IN
    IF k = 0
    THEN /\ ret' = Retorno("cambiar_estado_pedido", arg, FALSE, "Pedido no encontrado")
         /\ UNCHANGED << memoria, uuid, disco, hilos, inicial, usuarios >>
    ELSE IF ~estado_valido(nuevo_estado)
    THEN /\ ret' = Retorno("cambiar_estado_pedido", arg, FALSE, "Estado no valido")
         /\ UNCHANGED << memoria, uuid, disco, hilos, inicial, usuarios >>
    ELSE /\ pedidos' = cambiar_estado(pedidos, k,
                          estado_tras_cambio(pedidos[k].estado, nuevo_estado))
         /\ disco' = guardar_pedidos(disco, pedidos')
         /\ ingredientes' = inventario_tras_cambio(ingredientes, nuevo_estado)
         /\ ret' = Retorno("cambiar_estado_pedido", arg, TRUE, "Estado cambiado")
         /\ UNCHANGED << productos, mesas, facturas, uuid, hilos, inicial, usuarios >>

\* --------------------------------------------------------------- cashier
\* Factura.__init__
Factura(id, pedido_id, total, metodo_pago) ==
    [id |-> id, pedido_id |-> pedido_id, total |-> total, metodo_pago |-> metodo_pago]

\* Factura.to_dict
Factura_to_dict(factura) ==
    [id |-> factura.id, pedido_id |-> factura.pedido_id, total |-> factura.total,
     metodo_pago |-> factura.metodo_pago]

\* Factura.from_dict: the constructor (a new id), then the id of the document
Factura_from_dict(data) ==
    [Factura(0, data.pedido_id, data.total, data.metodo_pago) EXCEPT !.id = data.id]

\* CajaService.guardar_facturas
guardar_facturas(d, facs) ==
    [d EXCEPT !.facturas = [k \in 1..Len(facs) |-> Factura_to_dict(facs[k])]]

\* CajaService.cargar_facturas
cargar_facturas(doc) == [k \in 1..Len(doc) |-> Factura_from_dict(doc[k])]

\* a cashier that would also charge an order still in preparation
puede_cobrarse_laxo(estado) == estado \in {"LISTO", "EN_PREPARACION"}

\* CajaService.cobrar_pedido: the state test that lets the charge go on
puede_cobrarse(estado) == estado = "LISTO"

\* CajaService.cobrar_pedido
CobrarPedido(pedido_id, metodo_pago) ==
    LET k   == obtener_pedido(pedidos, pedido_id)
        arg == [id |-> pedido_id, metodo |-> metodo_pago]
    IN
    IF k = 0
    THEN /\ ret' = Retorno("cobrar_pedido", arg, FALSE, "Pedido no encontrado")
         /\ UNCHANGED << memoria, uuid, disco, hilos, inicial, usuarios >>
    ELSE IF pedidos[k].estado = "COBRADO"
    THEN /\ ret' = Retorno("cobrar_pedido", arg, FALSE, "El pedido ya fue cobrado")
         /\ UNCHANGED << memoria, uuid, disco, hilos, inicial, usuarios >>
    ELSE IF ~puede_cobrarse(pedidos[k].estado)
    THEN /\ ret' = Retorno("cobrar_pedido", arg, FALSE,
                           "El pedido debe estar LISTO para cobrarse")
         /\ UNCHANGED << memoria, uuid, disco, hilos, inicial, usuarios >>
    ELSE /\ Len(facturas) < MaxFacturas
         /\ uuid' = [uuid EXCEPT !.factura = @ + 1]
         /\ facturas' = Append(facturas,
                Factura(uuid.factura + 1, pedido_id, calcular_total(pedidos[k]), metodo_pago))
         /\ pedidos' = cambiar_estado(pedidos, k, "COBRADO")
         /\ disco' = guardar_facturas(guardar_pedidos(disco, pedidos'), facturas')
         /\ ret' = Retorno("cobrar_pedido", arg, TRUE, "Pedido cobrado correctamente")
         /\ UNCHANGED << productos, ingredientes, mesas, hilos, inicial, usuarios >>

\* ------------------------------------------------- sequential behaviour
\* what a request thread holds when it is not inside _crear_pedido
LocVacio ==
    [tipo |-> "", mesa_id |-> 0, items |-> << >>, orden |-> << >>,
     total |-> [x \in {} |-> 0], v |-> 1, faltan |-> FALSE, k |-> 1,
     tmp |-> 0, id |-> 0, res |-> ""]

\* the menu file the process loads: every product with its recipe
MenuInicial ==
    [p \in MenuIds |->
        [precio |-> IF p = "p1" THEN 1 ELSE MaxPrecio, receta |-> RecetaBase[p]]]

\* Mesa.__init__ for each table of _inicializar_mesas
MesasIniciales ==
    [n \in 1..NumMesas |-> [ocupada |-> FALSE, pedidos_activos |-> << >>]]

\* Usuario.to_dict: "tipo" is the name of the class
Usuario_to_dict(user) ==
    [tipo |-> user.clase, username |-> user.username, email |-> user.email,
     rol |-> user.rol, hashed_password |-> user.hashed_password]

\* AuthService.guardar_usuarios
guardar_usuarios(d, us) ==
    [d EXCEPT !.usuarios = [k \in 1..Len(us) |-> Usuario_to_dict(us[k])]]

\* Usuario.from_dict: the class named by "tipo", whose constructor fixes the
\* rol (a plain Usuario takes the rol of the document), then the fields
Usuario_from_dict(data) ==
    [username |-> data.username, email |-> data.email,
     hashed_password |-> data.hashed_password,
     rol |-> IF data.tipo = "Administrador" THEN "administrador"
             ELSE IF data.tipo = "Mesero" THEN "mesero"
             ELSE IF data.tipo = "Cocinero" THEN "cocinero"
             ELSE data.rol,
     clase |-> IF data.tipo \in {"Administrador", "Mesero", "Cocinero"}
               THEN data.tipo ELSE "Usuario"]

\* AuthService.cargar_usuarios: the users, and the two indexes it fills
cargar_usuarios(doc) == [k \in 1..Len(doc) |-> Usuario_from_dict(doc[k])]

indice_username(us) ==
    [n \in { us[i].username : i \in 1..Len(us) } |->
        CHOOSE i \in 1..Len(us) : us[i].username = n]

indice_email(us) ==
    [e \in { us[i].email : i \in 1..Len(us) } |->
        CHOOSE i \in 1..Len(us) : us[i].email = e]

\* the five JSON documents as the services write them
Documentos(prods, ings, peds, facs, us) ==
    guardar_usuarios(
      guardar_facturas(
        guardar_pedidos(
          guardar_inventario(
            guardar_menu([menu |-> {}, inventario |-> {}, pedidos |-> << >>,
                          facturas |-> << >>, usuarios |-> << >>], prods),
            ings),
          peds),
        facs),
      us)

\* the services after construction, over the given inventory file
InitConUsuarios(ings, us) ==
    /\ productos = MenuInicial
    /\ ingredientes = ings
    /\ pedidos = << >>
    /\ mesas = MesasIniciales
    /\ facturas = << >>
    /\ uuid = [pedido |-> 0, factura |-> 0, arranque |-> 0]
    /\ disco = Documentos(MenuInicial, ings, << >>, << >>, us)
    /\ ret = Retorno("init", 0, TRUE, "")
    /\ pc = [t \in Threads |-> "idle"]
    /\ loc = [t \in Threads |-> LocVacio]
    /\ inicial = ings
    /\ users = us
    /\ users_by_username = indice_username(us)
    /\ users_by_email = indice_email(us)
    /\ http = Respuesta("", SinToken, 0, "")

\* the services after construction when no user file exists
InitCon(ings) == InitConUsuarios(ings, << >>)

\* the inventory file of the life-cycle behaviours: i1 in stock, i2 run out
Init == InitCon([i \in IngIds |-> IF i = "i1" THEN MaxStock ELSE 0])

\* ------------------------------------------------------------- requests
L(p, c) == [producto_id |-> p, cantidad |-> c]

\* requests of the life-cycle behaviours: one line each
Entradas == { << L("p1", 1) >>, << L("p2", 1) >>, << L("p3", 1) >>, << L("p9", 1) >> }

\* requests of the inventory behaviours: one line, or two lines whose
\* recipes share ingredient i1, in both orders
EntradasInv ==
    {<< L(p, c) >> : p \in ProdIds, c \in 1..MaxCant}
    \cup {<< L("p1", a), L("p2", b) >> : a, b \in 1..MaxCant}
    \cup { << L("p2", 1), L("p1", 1) >> }

\* requests of the menu behaviours
EntradasMenu == { << >>, << L("p1", 1) >>, << L("p1", MaxCant), L("p2", 1) >> }

MesasEntrada == {1, NumMesas + 1}
IdsEntrada == 1..(MaxPedidos + 1)

\* The order life cycle: creation, confirmation, state changes and charging,
\* with replenishment of i1 and of an ingredient id the inventory lacks
Next ==
    \/ \E id \in {"i1", "i3"} : ReponerStock(id, 1) /\ UNCHANGED http
    \/ \E n \in MesasEntrada, e \in Entradas : CrearPedido("mesa", n, e) /\ UNCHANGED http
    \/ \E e \in Entradas : CrearPedido("delivery", 0, e) /\ UNCHANGED http
    \/ \E id \in IdsEntrada : ConfirmarPedido(id) /\ UNCHANGED http
    \/ \E id \in IdsEntrada, tok \in Tokens : CambiarEstadoPedido(id, tok) /\ UNCHANGED http
    \/ \E id \in IdsEntrada : CobrarPedido(id, "efectivo") /\ UNCHANGED http

Spec == Init /\ [][Next]_vars

\* Order creation against a changing inventory
NextInv ==
    \/ \E id \in IngIds, c \in 0..MaxStock : AgregarIngrediente(id, c) /\ UNCHANGED http
    \/ \E id \in IngIds, c \in 1..MaxStock : ReponerStock(id, c) /\ UNCHANGED http
    \/ \E e \in EntradasInv : CrearPedido("mesa", 1, e) /\ UNCHANGED http
    \/ \E e \in EntradasInv : CrearPedido("delivery", 0, e) /\ UNCHANGED http

\* the inventory file of the inventory behaviours: i2 is yet to be added
InitInv == InitCon([i \in {"i1"} |-> MaxStock])

SpecInv == InitInv /\ [][NextInv]_vars

\* Order creation and charging against a changing menu
InitMenu == InitCon([i \in IngIds |-> MaxStock])

NextMenu ==
    \/ \E id \in ProdIds, pr \in 1..MaxPrecio :
          \E r \in {<< >>, RecetaBase[id]} : AgregarProducto(id, pr, r) /\ UNCHANGED http
    \/ \E id \in ProdIds : EliminarProducto(id) /\ UNCHANGED http
    \/ \E e \in EntradasMenu : CrearPedido("delivery", 0, e) /\ UNCHANGED http

SpecMenu == InitMenu /\ [][NextMenu]_vars

\* ------------------------------------- amounts the request schemas take
\* IngredienteCreate.cantidad and IngredienteReponer.cantidad are floats and
\* PedidoItemCreate.cantidad is an int, none of them constrained: the
\* amounts sent here are of either sign, and zero for an item
CantidadesApi == {-1, 1}
EntradasApi ==
    { << L("p1", c) >> : c \in {-1, 0, 1} } \cup { << L("p1", 1), L("p2", -1) >> }

\* the quantities stay within the range explored
Acotado(ings) == \A i \in DOMAIN ings : ings[i] \in (0 - MaxStock)..MaxStock

NextCant ==
    \/ \E id \in IngIds, c \in CantidadesApi :
          AgregarIngrediente(id, c) /\ Acotado(ingredientes') /\ UNCHANGED http
    \/ \E id \in IngIds, c \in CantidadesApi :
          ReponerStock(id, c) /\ Acotado(ingredientes') /\ UNCHANGED http
    \/ \E e \in EntradasApi :
          CrearPedido("mesa", 1, e) /\ Acotado(ingredientes') /\ UNCHANGED http
    \/ \E e \in EntradasApi :
          CrearPedido("delivery", 0, e) /\ Acotado(ingredientes') /\ UNCHANGED http

SpecCant == InitInv /\ [][NextCant]_vars

\* -------------------------------------------- charging while prices move
\* requests of the cashier behaviours: one unit of a product, or several of p1
EntradasCaja == { << L("p1", 1) >>, << L("p1", MaxCant) >>, << L("p2", 1) >> }
MetodosPago == {"efectivo", "tarjeta"}

\* p1 is re-priced, orders are made, set LISTO and charged
NextCaja ==
    \/ \E pr \in 1..MaxPrecio : AgregarProducto("p1", pr, RecetaBase["p1"]) /\ UNCHANGED http
    \/ \E e \in EntradasCaja : CrearPedido("delivery", 0, e) /\ UNCHANGED http
    \/ \E id \in 1..MaxPedidos : CambiarEstadoPedido(id, "LISTO") /\ UNCHANGED http
    \/ \E id \in 1..MaxPedidos, m \in MetodosPago : CobrarPedido(id, m) /\ UNCHANGED http

SpecCaja == InitMenu /\ [][NextCaja]_vars

\* --------------------------------------------------------------- reports
\* PedidosService.listar_pedidos(estado): the orders in that state, in the
\* order of the dict; every order when no state is given, none when the
\* state is not one of the five
listar_pedidos(peds, estado) ==
    IF estado = "" THEN peds
    ELSE IF ~estado_valido(estado) THEN << >>
    ELSE SelectSeq(peds, LAMBDA ped : ped.estado = estado)

\* platos_mas_vendidos: contador_productos as the product ids in the order
\* of their first item, with the quantity and the revenue of each
ContadorVacio == [orden |-> << >>, datos |-> [x \in {} |-> 0]]

\* one turn of the inner loop: the entry is made at the first item of the
\* product, then the item's quantity and subtotal are added to it
contar_item(c, item) ==
    LET pid   == item.producto_id
        nuevo == pid \notin DOMAIN c.datos
        antes == IF nuevo THEN [cantidad |-> 0, ingresos |-> 0] ELSE c.datos[pid]
    IN  [orden |-> IF nuevo THEN Append(c.orden, pid) ELSE c.orden,
         datos |-> Poner(c.datos, pid,
                         [cantidad |-> antes.cantidad + item.cantidad,
                          ingresos |-> antes.ingresos + subtotal(item)])]

RECURSIVE contar_items(_, _)
contar_items(c, items) ==
    IF items = << >> THEN c
    ELSE contar_items(contar_item(c, Head(items)), Tail(items))

RECURSIVE contar_pedidos(_, _)
contar_pedidos(c, peds) ==
    IF peds = << >> THEN c
    ELSE contar_pedidos(contar_items(c, Head(peds).items), Tail(peds))

\* sorted(..., key=cantidad, reverse=True): the sort is stable, entries of
\* equal quantity keep the order they came in
RECURSIVE insertar_por_cantidad(_, _)
insertar_por_cantidad(ordenados, x) ==
    IF ordenados = << >> THEN << x >>
    ELSE IF Head(ordenados).cantidad < x.cantidad
         THEN << x >> \o ordenados
         ELSE << Head(ordenados) >> \o insertar_por_cantidad(Tail(ordenados), x)

RECURSIVE ordenar_por_cantidad(_, _)
ordenar_por_cantidad(ordenados, entradas) ==
    IF entradas = << >> THEN ordenados
    ELSE ordenar_por_cantidad(insertar_por_cantidad(ordenados, Head(entradas)),
                              Tail(entradas))

\* the slice s[:limite]: the first limite elements, and for a negative
\* limite all but the last -limite
rebanar(s, limite) ==
    IF limite >= 0
    THEN SubSeq(s, 1, IF limite < Len(s) THEN limite ELSE Len(s))
    ELSE SubSeq(s, 1, IF Len(s) + limite > 0 THEN Len(s) + limite ELSE 0)

\* ReportesService.platos_mas_vendidos
platos_mas_vendidos(peds, limite) ==
    LET c        == contar_pedidos(ContadorVacio, listar_pedidos(peds, "COBRADO"))
        entradas == [a \in 1..Len(c.orden) |->
                        [producto_id |-> c.orden[a],
                         cantidad    |-> c.datos[c.orden[a]].cantidad,
                         ingresos    |-> c.datos[c.orden[a]].ingresos]]
    IN  rebanar(ordenar_por_cantidad(<< >>, entradas), limite)

\* GET /reportes/productos-mas-vendidos: the report is computed and returned
PlatosMasVendidos(limite) ==
    /\ ret' = Retorno("platos_mas_vendidos", limite, TRUE,
                      platos_mas_vendidos(pedidos, limite))
    /\ UNCHANGED << memoria, uuid, disco, hilos, inicial, usuarios >>

\* requests of the report behaviours: p1 and p2 in both orders, with equal
\* and with different quantities
EntradasReporte ==
    { << L("p1", 1), L("p2", 1) >>, << L("p2", 1), L("p1", MaxCant) >>,
      << L("p2", MaxCant) >> }

\* limits a caller may send: the query parameter is any int
Limites == {-1, 0, 1, 2, 10}

\* an inventory file that covers the orders of the report behaviours
InitReporte == InitCon([i \in IngIds |-> 2 * MaxPedidos * MaxCant])

NextReporte ==
    \/ \E e \in EntradasReporte : CrearPedido("delivery", 0, e) /\ UNCHANGED http
    \/ \E id \in 1..MaxPedidos, tok \in {"LISTO", "COBRADO", "CANCELADO"} :
          CambiarEstadoPedido(id, tok) /\ UNCHANGED http
    \/ \E lim \in Limites : PlatosMasVendidos(lim) /\ UNCHANGED http

SpecReporte == InitReporte /\ [][NextReporte]_vars

\* ------------------------------------------------------ low-stock alerts
\* InventarioService.__init__: self.umbral_bajo_stock = 10.0
umbral_bajo_stock == 10

\* alertas_bajo_stock: the quantity below which the level is the critical one
umbral_critico == 5

\* a comparison that would also take the quantity equal to the threshold
bajo_umbral_inclusive(cantidad, umbral) == cantidad <= umbral

\* obtener_bajo_stock: ing.cantidad < umbral
bajo_umbral(cantidad, umbral) == cantidad < umbral

\* InventarioService.obtener_bajo_stock: the threshold is the given one, or
\* the default when none is given (umbral is {} for None, {u} for u); the
\* ingredients below it
obtener_bajo_stock(ings, umbral) ==
    LET u == IF umbral = {} THEN umbral_bajo_stock ELSE CHOOSE x \in umbral : TRUE
    IN  {i \in DOMAIN ings : bajo_umbral(ings[i], u)}

\* the level of an alert; the source spells the first label with an accent
nivel(cantidad) == IF cantidad < umbral_critico THEN "CRITICO" ELSE "BAJO"

\* ReportesService.alertas_bajo_stock: one alert per ingredient found
alertas_bajo_stock(ings, umbral) ==
    { [id |-> i, cantidad_actual |-> ings[i], nivel |-> nivel(ings[i])] :
        i \in obtener_bajo_stock(ings, umbral) }

\* GET /reportes/alertas-stock: the alerts with the default threshold
AlertasStock ==
    /\ ret' = Retorno("alertas_bajo_stock", 0, TRUE, alertas_bajo_stock(ingredientes, {}))
    /\ UNCHANGED << memoria, uuid, disco, hilos, inicial, usuarios >>

\* quantities on both sides of the two thresholds
CantidadesAlerta ==
    {umbral_critico - 1, umbral_critico, umbral_bajo_stock - 1, umbral_bajo_stock}

\* an inventory file with i1 at one of those quantities
InitAlertas == \E c \in CantidadesAlerta : InitCon([i \in {"i1"} |-> c])

NextAlertas ==
    \/ \E c \in CantidadesAlerta : AgregarIngrediente("i2", c) /\ UNCHANGED http
    \/ \E p \in ProdIds : CrearPedido("delivery", 0, << L(p, 1) >>) /\ UNCHANGED http
    \/ AlertasStock /\ UNCHANGED http

SpecAlertas == InitAlertas /\ [][NextAlertas]_vars

\* ------------------------------------------------- recipes on their own
\* InventarioService.verificar_receta called on a recipe dict, given as the
\* order of its keys and the amount of each
VerificarReceta(orden, total) ==
    /\ ret' = Retorno("verificar_receta", [orden |-> orden, total |-> total],
                      verificar_receta(ingredientes, orden, total).ok,
                      verificar_receta(ingredientes, orden, total).faltantes)
    /\ UNCHANGED << memoria, uuid, disco, hilos, inicial, usuarios >>

\* a deduction loop that would stop after the first ingredient
restar_receta_primero(ings, orden, total) ==
    IF orden = << >> THEN ings
    ELSE [ings EXCEPT ![Head(orden)] = descontar(@, total[Head(orden)])]

\* descontar_receta: the loop "ingrediente.descontar(cantidad)" over the
\* items of the recipe, entered only after verificar_receta has passed
RECURSIVE restar_receta(_, _, _)
restar_receta(ings, orden, total) ==
    IF orden = << >> THEN ings
    ELSE restar_receta([ings EXCEPT ![Head(orden)] = descontar(@, total[Head(orden)])],
                       Tail(orden), total)

\* InventarioService.descontar_receta
DescontarReceta(orden, total) ==
    LET arg == [orden |-> orden, total |-> total]
    IN
    IF ~verificar_receta(ingredientes, orden, total).ok
    THEN /\ ret' = Retorno("descontar_receta", arg, FALSE, "")
         /\ UNCHANGED << memoria, uuid, disco, hilos, inicial, usuarios >>
    ELSE /\ ingredientes' = restar_receta(ingredientes, orden, total)
         /\ disco' = guardar_inventario(disco, ingredientes')
         /\ ret' = Retorno("descontar_receta", arg, TRUE, "")
         /\ UNCHANGED << productos, pedidos, mesas, facturas, uuid, hilos, inicial, usuarios >>

\* the recipe dicts of the recipe behaviours: one to three ingredients in
\* either order, i3 being in no inventory, with amounts from 0 to MaxCant
OrdenesReceta ==
    { << "i1" >>, << "i2" >>, << "i1", "i2" >>, << "i2", "i1" >>, << "i3", "i1" >>,
      << "i1", "i2", "i3" >> }

Recetas ==
    UNION { { [orden |-> o, total |-> t] :
                t \in [ { o[k] : k \in 1..Len(o) } -> 0..MaxCant ] } :
            o \in OrdenesReceta }

\* any inventory file over i1 and i2
InitReceta == \E ings \in [IngIds -> 0..MaxStock] : InitCon(ings)

NextReceta ==
    \/ \E r \in Recetas : VerificarReceta(r.orden, r.total) /\ UNCHANGED http
    \/ \E r \in Recetas : DescontarReceta(r.orden, r.total) /\ UNCHANGED http

SpecReceta == InitReceta /\ [][NextReceta]_vars

\* ------------------------------------------------------- authentication
\* the roles registration requests send (UserRegister.rol is any string)
Roles == {"administrador", "Administrador", "mesero", "empleado"}

\* a comparison of the role as sent, with no lowering
lower_sin_cambio(rol) == rol

\* str.lower over the role names requests send
lower(rol) ==
    IF rol \in {"Administrador", "ADMINISTRADOR"} THEN "administrador" ELSE rol

\* the class create_user instantiates for a role
clase_de(rol) ==
    IF lower(rol) = "administrador" THEN "Administrador"
    ELSE IF lower(rol) = "mesero" THEN "Mesero"
    ELSE IF lower(rol) = "cocinero" THEN "Cocinero"
    ELSE "Usuario"

\* the rol attribute the constructor of that class leaves: a fixed name for
\* the three subclasses, the role as sent for a plain Usuario
rol_de(rol) ==
    IF clase_de(rol) = "Administrador" THEN "administrador"
    ELSE IF clase_de(rol) = "Mesero" THEN "mesero"
    ELSE IF clase_de(rol) = "Cocinero" THEN "cocinero"
    ELSE rol

\* AuthService.hash_password: a digest that is not the password
hash_password(password) == << "bcrypt", password >>

\* AuthService.verify_password
verify_password(password, hashed_password) ==
    hashed_password = hash_password(password)

\* the user object create_user builds
NuevoUsuario(username, email, password, rol) ==
    [username |-> username, email |-> email,
     hashed_password |-> hash_password(password),
     rol |-> rol_de(rol), clase |-> clase_de(rol)]

\* Usuario.es_admin: False, overridden to True by Administrador
es_admin(user) == user.clase = "Administrador"

\* a duplicate test that would look at the username index only
duplicado_solo_username(by_username, by_email, username, email) ==
    IF username \in DOMAIN by_username THEN "username" ELSE ""

\* the two tests at the head of create_user: which index already holds the
\* key, the username one being asked first; "" when neither does
duplicado(by_username, by_email, username, email) ==
    IF username \in DOMAIN by_username THEN "username"
    ELSE IF email \in DOMAIN by_email THEN "email"
    ELSE ""

\* AuthService.create_user
CreateUser(username, email, password, rol) ==
    LET arg == [username |-> username, email |-> email, rol |-> rol]
        dup == duplicado(users_by_username, users_by_email, username, email)
    IN
    IF dup # ""
    THEN /\ ret' = Retorno("create_user", arg, FALSE, dup)
         /\ UNCHANGED << memoria, uuid, disco, hilos, inicial, usuarios >>
    ELSE /\ users' = Append(users, NuevoUsuario(username, email, password, rol))
         /\ users_by_username' = Poner(users_by_username, username, Len(users'))
         /\ users_by_email' = Poner(users_by_email, email, Len(users'))
         /\ disco' = guardar_usuarios(disco, users')
         /\ ret' = Retorno("create_user", arg, TRUE, Len(users'))
         /\ UNCHANGED << memoria, uuid, hilos, inicial >>

\* AuthService.authenticate_user: the place of the user in users, 0 for None
authenticate_user(us, by_username, username, password) ==
    IF username \notin DOMAIN by_username THEN 0
    ELSE IF ~verify_password(password, us[by_username[username]].hashed_password)
    THEN 0
    ELSE by_username[username]

\* AuthService.create_access_token over {"sub": username}: a token signed
\* with the key of the service
create_access_token(username) == [sub |-> username, firma |-> "propia"]

\* AuthService.verify_token: the subject of a token that jwt.decode accepts,
\* "" (None) for a token it rejects or that names no subject
verify_token(token) ==
    IF token.firma # "propia" THEN "" ELSE token.sub

\* AuthService.get_user_by_username: the place of the user, 0 for None
get_user_by_username(by_username, username) ==
    IF username \in DOMAIN by_username THEN by_username[username] ELSE 0

\* registrations of the account behaviours: names and addresses that differ
\* in case only are different keys
Usernames == {"ana", "Ana", "bea"}
Emails == {"a@x.io", "A@x.io", "b@x.io"}
MaxUsers == 2

NextAuth ==
    \E u \in Usernames, e \in Emails, r \in Roles :
        /\ CreateUser(u, e, "secreto", r)
        /\ Len(users') <= MaxUsers
        /\ UNCHANGED http

SpecAuth == Init /\ [][NextAuth]_vars

\* ------------------------------------------------------------- endpoints
\* the dependency each route declares: get_current_user, require_admin, or
\* none of the two
Dependencia ==
    [e \in {"POST /auth/register", "POST /auth/login", "GET /auth/users",
            "GET /menu/productos", "GET /", "GET /styles.css", "GET /api"}
        |-> "ninguna"]
    @@ [e \in {"GET /auth/me", "GET /inventario/ingredientes",
               "POST /pedidos/mesa", "POST /pedidos/delivery", "GET /pedidos",
               "PATCH /pedidos/{id}/estado", "POST /caja/cobrar/{id}",
               "GET /caja/facturas"}
        |-> "get_current_user"]
    @@ [e \in {"POST /menu/productos", "DELETE /menu/productos/{id}",
               "POST /inventario/ingredientes",
               "PATCH /inventario/ingredientes/{id}/reponer",
               "GET /caja/estado", "GET /reportes/ventas",
               "GET /reportes/productos-mas-vendidos",
               "GET /reportes/alertas-stock"}
        |-> "require_admin"]

Endpoints == DOMAIN Dependencia

\* oauth2_scheme, then get_current_user: the place in users of the user the
\* token names; 0 when the header is missing, the token is rejected or no
\* such user is registered (401 in the three cases)
get_current_user(by_username, token) ==
    IF token = SinToken THEN 0
    ELSE IF verify_token(token) = "" THEN 0
    ELSE get_user_by_username(by_username, verify_token(token))

\* an admin guard that would let every authenticated user through
require_admin_abierto(user) == TRUE

\* require_admin: whether the guard lets the authenticated user through
require_admin(user) == es_admin(user)

\* the status with which the dependencies of a route answer a request, 200
\* standing for "the handler runs"
dependencia(dep, us, by_username, token) ==
    LET k == get_current_user(by_username, token) IN
    IF dep = "ninguna" THEN 200
    ELSE IF k = 0 THEN 401
    ELSE IF dep = "require_admin" /\ ~require_admin(us[k]) THEN 403
    ELSE 200

\* the request stops at a dependency: nothing but the response changes
Rechazar(endpoint, token, status) ==
    /\ http' = Respuesta(endpoint, token, status, "")
    /\ UNCHANGED << memoria, uuid, disco, ret, hilos, inicial, usuarios >>

\* a handler that reads and answers
Leer200(endpoint, token, body) ==
    /\ http' = Respuesta(endpoint, token, 200, body)
    /\ UNCHANGED << memoria, uuid, disco, ret, hilos, inicial, usuarios >>

\* a request to a route: its dependencies first, the handler if they pass
Atender(endpoint, token, Manejador) ==
    LET st == dependencia(Dependencia[endpoint], users, users_by_username, token)
    IN  IF st # 200 THEN Rechazar(endpoint, token, st) ELSE Manejador

\* UserRead as list_users and get_current_user_info build it
UserRead(user) ==
    [username |-> user.username, email |-> user.email, rol |-> user.rol]

\* POST /auth/register
register_user(token, username, email, password, rol) ==
    Atender("POST /auth/register", token,
        /\ CreateUser(username, email, password, rol)
        /\ http' = Respuesta("POST /auth/register", token,
                             IF ret'.ok THEN 201 ELSE 400, username))

\* POST /auth/login
login_for_access_token(token, username, password) ==
    Atender("POST /auth/login", token,
        /\ http' = IF authenticate_user(users, users_by_username, username, password) = 0
                   THEN Respuesta("POST /auth/login", token, 401, "")
                   ELSE Respuesta("POST /auth/login", token, 200,
                                  create_access_token(username))
        /\ UNCHANGED << memoria, uuid, disco, ret, hilos, inicial, usuarios >>)

\* GET /auth/users
list_users(token) ==
    Atender("GET /auth/users", token,
        Leer200("GET /auth/users", token,
                [i \in 1..Len(users) |-> UserRead(users[i])]))

\* GET /auth/me
get_current_user_info(token) ==
    Atender("GET /auth/me", token,
        Leer200("GET /auth/me", token,
                UserRead(users[get_current_user(users_by_username, token)])))

\* GET /menu/productos
listar_productos(token) ==
    Atender("GET /menu/productos", token,
        Leer200("GET /menu/productos", token, DOMAIN productos))

\* POST /menu/productos: a Plato or a Bebida with a new id and no recipe
crear_producto(token, tipo, id, precio) ==
    Atender("POST /menu/productos", token,
        IF tipo \in {"plato", "bebida"}
        THEN /\ id \notin DOMAIN productos
             /\ AgregarProducto(id, precio, << >>)
             /\ http' = Respuesta("POST /menu/productos", token, 201, id)
        ELSE Rechazar("POST /menu/productos", token, 400))

\* DELETE /menu/productos/{id}
eliminar_producto(token, id) ==
    Atender("DELETE /menu/productos/{id}", token,
        /\ EliminarProducto(id)
        /\ http' = Respuesta("DELETE /menu/productos/{id}", token,
                             IF ret'.ok THEN 204 ELSE 404, ""))

\* GET /inventario/ingredientes
listar_ingredientes(token) ==
    Atender("GET /inventario/ingredientes", token,
        Leer200("GET /inventario/ingredientes", token, ingredientes))

\* POST /inventario/ingredientes
crear_ingrediente(token, id, cantidad) ==
    Atender("POST /inventario/ingredientes", token,
        /\ AgregarIngrediente(id, cantidad)
        /\ http' = Respuesta("POST /inventario/ingredientes", token, 201, id))

\* PATCH /inventario/ingredientes/{id}/reponer
reponer_stock(token, id, cantidad) ==
    Atender("PATCH /inventario/ingredientes/{id}/reponer", token,
        /\ ReponerStock(id, cantidad)
        /\ http' = Respuesta("PATCH /inventario/ingredientes/{id}/reponer", token,
                             IF ret'.ok THEN 200 ELSE 404, ""))

\* a conversion that would add up the quantities of a repeated product
RECURSIVE productos_cantidades_suma(_)
productos_cantidades_suma(items) ==
    IF items = << >> THEN << >>
    ELSE LET antes  == productos_cantidades_suma(SubSeq(items, 1, Len(items) - 1))
             ultimo == items[Len(items)]
         IN  IF \E k \in 1..Len(antes) : antes[k].producto_id = ultimo.producto_id
             THEN [k \in 1..Len(antes) |->
                     IF antes[k].producto_id = ultimo.producto_id
                     THEN [antes[k] EXCEPT !.cantidad = @ + ultimo.cantidad]
                     ELSE antes[k]]
             ELSE Append(antes, ultimo)

\* {item.producto_id: item.cantidad for item in datos.items}: the dict the
\* two order endpoints build from the request's list, as the sequence of its
\* entries in insertion order; a key met again keeps its place and takes the
\* new value
RECURSIVE productos_cantidades(_)
productos_cantidades(items) ==
    IF items = << >> THEN << >>
    ELSE LET antes  == productos_cantidades(SubSeq(items, 1, Len(items) - 1))
             ultimo == items[Len(items)]
         IN  IF \E k \in 1..Len(antes) : antes[k].producto_id = ultimo.producto_id
             THEN [k \in 1..Len(antes) |->
                     IF antes[k].producto_id = ultimo.producto_id
                     THEN ultimo
                     ELSE antes[k]]
             ELSE Append(antes, ultimo)

\* POST /pedidos/mesa; the exchange keeps the request's items list as its body
crear_pedido_mesa(token, numero_mesa, entrada) ==
    Atender("POST /pedidos/mesa", token,
        /\ CrearPedido("mesa", numero_mesa, productos_cantidades(entrada))
        /\ http' = Respuesta("POST /pedidos/mesa", token,
                             IF ret'.ok THEN 201 ELSE 400, entrada))

\* POST /pedidos/delivery; the exchange keeps the request's items list as
\* its body
crear_pedido_delivery(token, entrada) ==
    Atender("POST /pedidos/delivery", token,
        /\ CrearPedido("delivery", 0, productos_cantidades(entrada))
        /\ http' = Respuesta("POST /pedidos/delivery", token,
                             IF ret'.ok THEN 201 ELSE 400, entrada))

\* GET /pedidos
listar_pedidos_api(token) ==
    Atender("GET /pedidos", token, Leer200("GET /pedidos", token, pedidos))

\* what the handler of PATCH /pedidos/{id}/estado answers after the service
\* call: the call raises neither KeyError nor ValueError (it returns a
\* tuple, which the handler drops), so the two except clauses never run and
\* the confirmation message is returned
respuesta_cambiar_estado(resultado) == 200

\* PATCH /pedidos/{id}/estado
cambiar_estado_pedido(token, pedido_id, nuevo_estado) ==
    Atender("PATCH /pedidos/{id}/estado", token,
        /\ CambiarEstadoPedido(pedido_id, nuevo_estado)
        /\ http' = Respuesta("PATCH /pedidos/{id}/estado", token,
                             respuesta_cambiar_estado(ret'), "Estado cambiado"))

\* POST /caja/cobrar/{id}
cobrar_pedido(token, pedido_id, metodo_pago) ==
    Atender("POST /caja/cobrar/{id}", token,
        /\ CobrarPedido(pedido_id, metodo_pago)
        /\ http' = Respuesta("POST /caja/cobrar/{id}", token,
                             IF ret'.ok THEN 200 ELSE 400, ""))

\* GET /caja/facturas
listar_facturas(token) ==
    Atender("GET /caja/facturas", token,
        Leer200("GET /caja/facturas", token, facturas))

\* GET /caja/estado: the handler calls caja_service.obtener_total_dia, which
\* CajaService does not define, and the AttributeError becomes a 500
estado_caja(token) ==
    Atender("GET /caja/estado", token, Rechazar("GET /caja/estado", token, 500))

\* ReportesService.reporte_ventas_del_dia: total and count of the invoices
reporte_ventas_del_dia(facs) ==
    LET RECURSIVE suma(_)
        suma(n) == IF n = 0 THEN 0 ELSE suma(n - 1) + facs[n].total
    IN  [total_ventas |-> suma(Len(facs)), cantidad_pedidos |-> Len(facs)]

\* GET /reportes/ventas
reporte_ventas(token) ==
    Atender("GET /reportes/ventas", token,
        Leer200("GET /reportes/ventas", token, reporte_ventas_del_dia(facturas)))

\* GET /reportes/productos-mas-vendidos
productos_mas_vendidos(token, limit) ==
    Atender("GET /reportes/productos-mas-vendidos", token,
        /\ PlatosMasVendidos(limit)
        /\ http' = Respuesta("GET /reportes/productos-mas-vendidos", token, 200, ""))

\* GET /reportes/alertas-stock
alertas_stock(token) ==
    Atender("GET /reportes/alertas-stock", token,
        /\ AlertasStock
        /\ http' = Respuesta("GET /reportes/alertas-stock", token, 200, ""))

\* GET /, GET /styles.css and GET /api
root(endpoint, token) ==
    Atender(endpoint, token, Leer200(endpoint, token, ""))

\* the bearer tokens a client can send: none, an expired one of ana, or one
\* that login issued to a registered user
TokensDe(by_username) ==
    {SinToken, [sub |-> "ana", firma |-> "caducada"]}
    \cup { create_access_token(u) : u \in DOMAIN by_username }

\* the user file of the endpoint behaviours: an administrator who
\* registered as "Administrador"
UsuariosIniciales ==
    << NuevoUsuario("ana", "a@x.io", "secreto", "Administrador") >>

InitApi ==
    InitConUsuarios([i \in IngIds |-> IF i = "i1" THEN MaxStock ELSE 0],
                    UsuariosIniciales)

\* registrations of the endpoint behaviours: a waiter, and a taken name
Registros ==
    { <<"bea", "b@x.io", "mesero">>, <<"ana", "z@x.io", "mesero">> }

NextApi ==
    \/ \E r \in Registros :
          register_user(SinToken, r[1], r[2], "secreto", r[3])
    \/ \E p \in {"secreto", "otra"} :
          login_for_access_token(SinToken, "bea", p)
    \/ \E tk \in TokensDe(users_by_username) : list_users(tk)
    \/ \E tk \in TokensDe(users_by_username) : get_current_user_info(tk)
    \/ \E tk \in TokensDe(users_by_username) : listar_productos(tk)
    \/ \E tk \in TokensDe(users_by_username), t \in {"plato", "postre"} :
          crear_producto(tk, t, "p9", 1)
    \/ \E tk \in TokensDe(users_by_username) : eliminar_producto(tk, "p9")
    \/ \E tk \in TokensDe(users_by_username) : listar_ingredientes(tk)
    \/ \E tk \in TokensDe(users_by_username) : crear_ingrediente(tk, "i3", 1)
    \/ \E tk \in TokensDe(users_by_username) : reponer_stock(tk, "i3", 1) /\ Acotado(ingredientes')
    \/ \E tk \in TokensDe(users_by_username) : crear_pedido_mesa(tk, NumMesas + 1, << L("p1", MaxStock) >>)
    \/ \E tk \in TokensDe(users_by_username) : crear_pedido_delivery(tk, << L("p1", MaxStock) >>)
    \/ \E tk \in TokensDe(users_by_username) : listar_pedidos_api(tk)
    \/ \E tk \in TokensDe(users_by_username), a \in { <<1, "LISTO">>, <<1, "listo">>, <<2, "LISTO">> } :
          cambiar_estado_pedido(tk, a[1], a[2])
    \/ \E tk \in TokensDe(users_by_username) : cobrar_pedido(tk, 1, "efectivo")
    \/ \E tk \in TokensDe(users_by_username) : listar_facturas(tk)
    \/ \E tk \in TokensDe(users_by_username) : estado_caja(tk)
    \/ \E tk \in TokensDe(users_by_username) : reporte_ventas(tk)
    \/ \E tk \in TokensDe(users_by_username) : productos_mas_vendidos(tk, 10)
    \/ \E tk \in TokensDe(users_by_username) : alertas_stock(tk)
    \/ \E e \in {"GET /", "GET /styles.css", "GET /api"} : root(e, SinToken)

SpecApi == InitApi /\ [][NextApi]_vars

\* ------------------------------------- registering as an administrator
\* the role names a newcomer sends
RolesPedidos == {"administrador", "Administrador", "ADMINISTRADOR", "mesero"}

\* the newcomers and their addresses
Nuevos == {"eva", "leo"}
correo_de(u) == IF u = "eva" THEN "e@x.io" ELSE "l@x.io"

\* no token, or the token login issues to a registered user
TokensEmitidos(by_username) ==
    {SinToken} \cup { create_access_token(u) : u \in DOMAIN by_username }

\* nobody is registered at the start; newcomers register, log in and call
\* the admin-only routes
NextRegistro ==
    \/ \E u \in Nuevos, r \in RolesPedidos :
          register_user(SinToken, u, correo_de(u), "secreto", r)
    \/ \E u \in Nuevos : login_for_access_token(SinToken, u, "secreto")
    \/ \E tk \in TokensEmitidos(users_by_username) : crear_producto(tk, "plato", "p9", 1)
    \/ \E tk \in TokensEmitidos(users_by_username) : eliminar_producto(tk, "p9")
    \/ \E tk \in TokensEmitidos(users_by_username) : crear_ingrediente(tk, "i3", 1)
    \/ \E tk \in TokensEmitidos(users_by_username) : reponer_stock(tk, "i3", 1)
    \/ \E tk \in TokensEmitidos(users_by_username) : estado_caja(tk)
    \/ \E tk \in TokensEmitidos(users_by_username) : reporte_ventas(tk)
    \/ \E tk \in TokensEmitidos(users_by_username) : productos_mas_vendidos(tk, 1)
    \/ \E tk \in TokensEmitidos(users_by_username) : alertas_stock(tk)

SpecRegistro == Init /\ [][NextRegistro]_vars

\* ------------------------------------------- orders with repeated items
MaxItems == 3

\* PedidoItemCreate: one entry of the request's items list
Lineas == { L(p, c) : p \in ProdIds, c \in 1..MaxCant }

\* PedidoMesaCreate.items, PedidoDeliveryCreate.items: lists of one to
\* MaxItems entries, repeated products included
ListasDeItems == UNION { [1..n -> Lineas] : n \in 1..MaxItems }

InitItems ==
    InitConUsuarios([i \in IngIds |-> MaxStock], UsuariosIniciales)

NextItems ==
    \/ \E tk \in {SinToken, create_access_token("ana")}, items \in ListasDeItems :
          crear_pedido_mesa(tk, 1, items)
    \/ \E items \in ListasDeItems :
          crear_pedido_delivery(create_access_token("ana"), items)

SpecItems == InitItems /\ [][NextItems]_vars

\* ------------------------------------------------------------- restarts
MaxArranques == 1

\* a start that would bring the tables over from the process before
mesas_al_arrancar_conservadas(ms) == ms

\* PedidosService.__init__: _inicializar_mesas builds the ten tables anew,
\* whatever they were, and cargar_pedidos does not touch them
mesas_al_arrancar(ms) == MesasIniciales

\* The process is stopped and started again: each service constructor loads
\* its JSON document, and PedidosService builds its tables before loading
\* the orders
Reiniciar ==
    /\ uuid.arranque < MaxArranques
    /\ productos' = cargar_menu(disco.menu)
    /\ ingredientes' = cargar_inventario(disco.inventario)
    /\ pedidos' = cargar_pedidos(disco.pedidos)
    /\ mesas' = mesas_al_arrancar(mesas)
    /\ facturas' = cargar_facturas(disco.facturas)
    /\ users' = cargar_usuarios(disco.usuarios)
    /\ users_by_username' = indice_username(users')
    /\ users_by_email' = indice_email(users')
    /\ uuid' = [uuid EXCEPT !.arranque = @ + 1]
    /\ ret' = Retorno("reiniciar", 0, TRUE, "")
    /\ pc' = [t \in Threads |-> "idle"]
    /\ loc' = [t \in Threads |-> LocVacio]
    /\ inicial' = ingredientes'
    /\ http' = Respuesta("", SinToken, 0, "")
    /\ UNCHANGED disco

\* every mutating service call, one at a time, and restarts
NextPersist ==
    \/ AgregarIngrediente("i3", 1) /\ UNCHANGED http
    \/ ReponerStock("i3", 1) /\ UNCHANGED http
    \/ CrearPedido("mesa", 1, << L("p1", 1) >>) /\ UNCHANGED http
    \/ CrearPedido("delivery", 0, << L("p1", 1) >>) /\ UNCHANGED http
    \/ \E id \in 1..MaxPedidos : CambiarEstadoPedido(id, "LISTO") /\ UNCHANGED http
    \/ \E id \in 1..MaxPedidos : ConfirmarPedido(id) /\ UNCHANGED http
    \/ \E id \in 1..MaxPedidos : CobrarPedido(id, "efectivo") /\ UNCHANGED http
    \/ CreateUser("ana", "a@x.io", "secreto", "Administrador") /\ UNCHANGED http
    \/ AgregarProducto("p9", 1, << >>) /\ UNCHANGED http
    \/ EliminarProducto("p9") /\ UNCHANGED http
    \/ Reiniciar

SpecPersist == Init /\ [][NextPersist]_vars

\* -------------------------------------------- creations on two threads
\* The endpoints are plain functions, which the server runs on a thread
\* pool: two creations run _crear_pedido at once over the same dicts, and a
\* thread may be switched out between any two reads or writes of them.
\* pc[t] is the thread's place in the call and loc[t] its local variables:
\* v the place in the loop of verificar_receta, k the place in the
\* deduction loop (the ingredients before k are written), tmp the quantity
\* loaded by "self.cantidad -= cantidad", id the id of the Pedido built.

\* a failed deduction that would give back what the call had taken before
RECURSIVE al_fallar_descuento_revierte(_, _, _, _)
al_fallar_descuento_revierte(ings, orden, total, k) ==
    IF k <= 1 THEN ings
    ELSE al_fallar_descuento_revierte(
            IF orden[k - 1] \in DOMAIN ings
            THEN [ings EXCEPT ![orden[k - 1]] = @ + total[orden[k - 1]]]
            ELSE ings,
            orden, total, k - 1)

\* _crear_pedido, except ValueError: the inventory the handler leaves when
\* the deduction of the ingredient at place k has raised; it returns at
\* once and writes nothing
al_fallar_descuento(ings, orden, total, k) == ings

\* crear_pedido_mesa / crear_pedido_delivery and the items loop of
\* _crear_pedido: they read the menu and fill the call's local variables
Entrar(t, tipo, numero_mesa, entrada) ==
    LET mesa  == IF tipo = "mesa" THEN buscar_mesa(numero_mesa) ELSE 0
        falta == producto_no_encontrado(productos, entrada)
        datos == items_data_de(productos, entrada)
        rt    == recetas_totales(datos)
    IN
    /\ pc[t] = "idle"
    /\ IF tipo = "mesa" /\ mesa = 0
       THEN /\ pc' = [pc EXCEPT ![t] = "fin"]
            /\ loc' = [loc EXCEPT ![t].res = "Mesa no encontrada"]
       ELSE IF falta # 0
       THEN /\ pc' = [pc EXCEPT ![t] = "fin"]
            /\ loc' = [loc EXCEPT ![t].res = "Producto no encontrado"]
       ELSE /\ pc' = [pc EXCEPT ![t] = IF rt.orden = << >> THEN "construir"
                                                            ELSE "verificar"]
            /\ loc' = [loc EXCEPT ![t] =
                          [LocVacio EXCEPT !.tipo = tipo, !.mesa_id = mesa,
                                           !.items = items_de(datos),
                                           !.orden = rt.orden, !.total = rt.total]]
    /\ UNCHANGED << memoria, uuid, disco, ret, inicial, usuarios, http >>

\* verificar_receta: one turn of its loop, and after the last turn the
\* return of _crear_pedido when something is short
Verificar(t) ==
    LET l     == loc[t]
        i     == l.orden[l.v]
        corto == \/ i \notin DOMAIN ingredientes
                 \/ ~hay_suficiente(ingredientes[i], l.total[i])
        falta == l.faltan \/ corto
    IN
    /\ pc[t] = "verificar"
    /\ IF l.v < Len(l.orden)
       THEN /\ loc' = [loc EXCEPT ![t].faltan = falta, ![t].v = l.v + 1]
            /\ pc' = pc
       ELSE IF falta
       THEN /\ loc' = [loc EXCEPT ![t].faltan = falta, ![t].v = l.v + 1,
                                   ![t].res = "Stock insuficiente"]
            /\ pc' = [pc EXCEPT ![t] = "fin"]
       ELSE /\ loc' = [loc EXCEPT ![t].faltan = falta, ![t].v = l.v + 1]
            /\ pc' = [pc EXCEPT ![t] = "construir"]
    /\ UNCHANGED << memoria, uuid, disco, ret, inicial, usuarios, http >>

\* pedido = Pedido(tipo, items, mesa_id, ...): the order gets its id
Construir(t) ==
    /\ pc[t] = "construir"
    /\ uuid' = [uuid EXCEPT !.pedido = @ + 1]
    /\ loc' = [loc EXCEPT ![t].id = uuid.pedido + 1]
    /\ pc' = [pc EXCEPT ![t] = IF loc[t].orden = << >> THEN "registrar"
                                                        ELSE "descontar"]
    /\ UNCHANGED << memoria, disco, ret, inicial, usuarios, http >>

\* the deduction loop at place k: obtener_ingrediente, then the test that
\* opens Ingrediente.descontar; a failed test raises ValueError and
\* _crear_pedido returns from its except clause
Comprobar(t) ==
    LET l == loc[t]
        i == l.orden[l.k]
    IN
    /\ pc[t] = "descontar"
    /\ IF i \notin DOMAIN ingredientes
       THEN /\ loc' = [loc EXCEPT ![t].k = l.k + 1]
            /\ pc' = [pc EXCEPT ![t] = IF l.k = Len(l.orden) THEN "guardar"
                                                              ELSE "descontar"]
            /\ UNCHANGED ingredientes
       ELSE IF ~hay_suficiente(ingredientes[i], l.total[i])
       THEN /\ loc' = [loc EXCEPT ![t].res = "Error al descontar inventario"]
            /\ pc' = [pc EXCEPT ![t] = "fin"]
            /\ ingredientes' = al_fallar_descuento(ingredientes, l.orden, l.total, l.k)
       ELSE /\ pc' = [pc EXCEPT ![t] = "leer"]
            /\ UNCHANGED << ingredientes, loc >>
    /\ UNCHANGED << productos, pedidos, mesas, facturas, uuid, disco, ret, inicial, usuarios, http >>

\* self.cantidad -= cantidad, first half: the quantity is loaded
Leer(t) ==
    /\ pc[t] = "leer"
    /\ loc' = [loc EXCEPT ![t].tmp = ingredientes[loc[t].orden[loc[t].k]]]
    /\ pc' = [pc EXCEPT ![t] = "escribir"]
    /\ UNCHANGED << memoria, uuid, disco, ret, inicial, usuarios, http >>

\* self.cantidad -= cantidad, second half: the difference is stored
Escribir(t) ==
    LET l == loc[t]
        i == l.orden[l.k]
    IN
    /\ pc[t] = "escribir"
    /\ ingredientes' = [ingredientes EXCEPT ![i] = descontar(l.tmp, l.total[i])]
    /\ loc' = [loc EXCEPT ![t].k = l.k + 1]
    /\ pc' = [pc EXCEPT ![t] = IF l.k = Len(l.orden) THEN "guardar" ELSE "descontar"]
    /\ UNCHANGED << productos, pedidos, mesas, facturas, uuid, disco, ret, inicial, usuarios, http >>

\* self.inventario_service.guardar_inventario() after the loop
GuardarInventario(t) ==
    /\ pc[t] = "guardar"
    /\ disco' = guardar_inventario(disco, ingredientes)
    /\ pc' = [pc EXCEPT ![t] = "registrar"]
    /\ UNCHANGED << memoria, uuid, ret, loc, inicial, usuarios, http >>

\* the tail of _crear_pedido: the order is stored, the table updated, the
\* orders file written, and the call returns success
Registrar(t) ==
    LET l == loc[t]
    IN
    /\ pc[t] = "registrar"
    /\ Len(pedidos) < MaxPedidos
    /\ pedidos' = Append(pedidos, Pedido(l.id, l.tipo, l.items,
                                         id_de_mesa(uuid.arranque, l.mesa_id)))
    /\ mesas' = mesas_con(mesas, l.mesa_id, l.id)
    /\ disco' = guardar_pedidos(disco, pedidos')
    /\ loc' = [loc EXCEPT ![t].res = "Pedido creado correctamente"]
    /\ pc' = [pc EXCEPT ![t] = "fin"]
    /\ UNCHANGED << productos, ingredientes, facturas, uuid, ret, inicial, usuarios, http >>

\* requests of the two threads: one line of p1, or one line of p2, whose
\* recipe takes i1 and then i2
EntradasConc == { << L("p1", 1) >>, << L("p1", MaxCant) >>, << L("p2", 1) >> }

\* any inventory file of the two ingredients
InitConc == \E ings \in [IngIds -> 0..MaxStock] : InitCon(ings)

NextConc ==
    \E t \in Threads :
        \/ \E e \in EntradasConc : Entrar(t, "mesa", t, e)
        \/ \E e \in EntradasConc : Entrar(t, "delivery", 0, e)
        \/ Verificar(t)
        \/ Construir(t)
        \/ Comprobar(t)
        \/ Leer(t)
        \/ Escribir(t)
        \/ GuardarInventario(t)
        \/ Registrar(t)

SpecConc == InitConc /\ [][NextConc]_vars

\* ================================================== charging and states
\* how many invoices reference the order
NumFacturasDe(facs, id) ==
    Cardinality({j \in 1..Len(facs) : facs[j].pedido_id = id})

\* the order of that id exists and is in that state
EnEstado(peds, id, estado) ==
    \E j \in 1..Len(peds) : peds[j].id = id /\ peds[j].estado = estado

\* C1: cobrar_pedido succeeds exactly when the order exists and is LISTO;
\* a success turns the order COBRADO and appends exactly one invoice that
\* references it; a second cobrar_pedido on the same order right after a
\* successful one fails with the already-charged message and adds no invoice
C1_Cobro ==
    [][ret'.op = "cobrar_pedido" =>
         /\ ret'.ok <=> EnEstado(pedidos, ret'.arg.id, "LISTO")
         /\ ret'.ok =>
               /\ EnEstado(pedidos', ret'.arg.id, "COBRADO")
               /\ Len(facturas') = Len(facturas) + 1
               /\ SubSeq(facturas', 1, Len(facturas)) = facturas
               /\ facturas'[Len(facturas')].pedido_id = ret'.arg.id
         /\ (ret.op = "cobrar_pedido" /\ ret.ok /\ ret.arg.id = ret'.arg.id) =>
               /\ ~ret'.ok
               /\ ret'.msg = "El pedido ya fue cobrado"
               /\ facturas' = facturas
    ]_vars

\* C1 happens: a charge was refused as already charged, on a COBRADO order
\* that has its one invoice
C1_Testigo ==
    /\ ret.op = "cobrar_pedido"
    /\ ~ret.ok
    /\ ret.msg = "El pedido ya fue cobrado"
    /\ EnEstado(pedidos, ret.arg.id, "COBRADO")
    /\ NumFacturasDe(facturas, ret.arg.id) = 1

\* C2: each order is referenced by at most one invoice
C2_UnaFacturaPorPedido ==
    \A j \in 1..Len(pedidos) : NumFacturasDe(facturas, pedidos[j].id) <= 1

\* C3: every COBRADO order is referenced by at least one invoice
C3_CobradoTieneFactura ==
    \A j \in 1..Len(pedidos) :
        pedidos[j].estado = "COBRADO" => NumFacturasDe(facturas, pedidos[j].id) >= 1

\* C8: cambiar_estado_pedido on an existing order writes the named state for
\* each of the five state names, whatever the current state, and touches no
\* other order; for any other token it fails and leaves the orders as they were
C8_CambioDeEstado ==
    [][(/\ ret'.op = "cambiar_estado_pedido"
        /\ \E j \in 1..Len(pedidos) : pedidos[j].id = ret'.arg.id) =>
         IF ret'.arg.token \in {"PENDIENTE", "EN_PREPARACION", "LISTO",
                                "COBRADO", "CANCELADO"}
         THEN /\ ret'.ok
              /\ Len(pedidos') = Len(pedidos)
              /\ \A j \in 1..Len(pedidos) :
                    pedidos'[j] = IF pedidos[j].id = ret'.arg.id
                                  THEN [pedidos[j] EXCEPT !.estado = ret'.arg.token]
                                  ELSE pedidos[j]
         ELSE /\ ~ret'.ok
              /\ pedidos' = pedidos
    ]_vars

\* C8 happens: a state change moved an order that has an invoice, and so was
\* COBRADO, back to PENDIENTE
C8_Testigo ==
    /\ ret.op = "cambiar_estado_pedido"
    /\ ret.ok
    /\ ret.arg.token = "PENDIENTE"
    /\ EnEstado(pedidos, ret.arg.id, "PENDIENTE")
    /\ NumFacturasDe(facturas, ret.arg.id) >= 1

\* ===================================================== failing calls
\* C6: a call that returns failure leaves ingredients, orders, tables and
\* invoices exactly as they were (calls run one after another): creation on
\* an unknown table, an unknown product, a missing or an insufficient
\* ingredient; cambiar_estado_pedido on an unknown order or an invalid token;
\* confirmar_pedido and cobrar_pedido on an unknown order or in the wrong
\* state; reponer_stock on an unknown ingredient
C6_FalloSinCambios ==
    [][~ret'.ok => UNCHANGED << ingredientes, pedidos, mesas, facturas >>]_vars

\* C6 happens: with orders made, a creation was refused for want of one
\* ingredient of a recipe whose other ingredient is in stock
C6_Testigo ==
    /\ ret.op = "crear_pedido"
    /\ ~ret.ok
    /\ ret.msg = "Stock insuficiente"
    /\ ret.arg.items = << L("p2", 1) >>
    /\ ingredientes["i1"] >= 1
    /\ ingredientes["i2"] = 0
    /\ Len(pedidos) >= 1

\* ======================================================= sums, by index
RECURSIVE SumaIdx(_, _)
SumaIdx(f, n) == IF n = 0 THEN 0 ELSE f[n] + SumaIdx(f, n - 1)

\* quantity times captured unit price, summed over the items
TotalCapturado(items) ==
    SumaIdx([j \in 1..Len(items) |-> items[j].cantidad * items[j].precio_unitario],
            Len(items))

\* what the recipe asks of the ingredient for one unit of the product
PorUnidad(receta, i) ==
    SumaIdx([r \in 1..Len(receta) |-> IF receta[r].ing = i THEN receta[r].cant ELSE 0],
            Len(receta))

\* what the lines ask of the ingredient: recipe amount per unit times the
\* line's quantity, summed over the lines
Requerido(lineas, prods, i) ==
    SumaIdx([j \in 1..Len(lineas) |->
                lineas[j].cantidad * PorUnidad(prods[lineas[j].producto_id].receta, i)],
            Len(lineas))

\* ================================================================ totals
\* C4: an order's total is the sum over its items of quantity times the unit
\* price captured at creation, which is the menu price of that moment; no
\* later step (adding, deleting or re-pricing products, other orders)
\* changes an existing order's items or its total
C4_TotalCapturado ==
    [][/\ Len(pedidos') >= Len(pedidos)
       /\ \A j \in 1..Len(pedidos) :
             /\ pedidos'[j].items = pedidos[j].items
             /\ (calcular_total(pedidos[j]))' = calcular_total(pedidos[j])
       /\ \A j \in 1..Len(pedidos) :
             (calcular_total(pedidos[j]))' = TotalCapturado(pedidos[j].items)
       /\ Len(pedidos') > Len(pedidos) =>
             LET nuevo == pedidos'[Len(pedidos')]
             IN  /\ (calcular_total(pedidos[Len(pedidos)]))' = TotalCapturado(nuevo.items)
                 /\ \A k \in 1..Len(nuevo.items) :
                       nuevo.items[k].precio_unitario
                           = productos[nuevo.items[k].producto_id].precio
    ]_vars

\* C4 happens: the menu now prices a product differently from the price an
\* existing order captured for it, and the order's total is the captured sum
C4_Testigo ==
    \E j \in 1..Len(pedidos) :
        /\ \E k \in 1..Len(pedidos[j].items) :
              LET it == pedidos[j].items[k]
              IN  /\ it.producto_id \in DOMAIN productos
                  /\ productos[it.producto_id].precio # it.precio_unitario
        /\ calcular_total(pedidos[j]) = TotalCapturado(pedidos[j].items)
        /\ calcular_total(pedidos[j]) > 0

\* ============================================================= deduction
\* C5: a successful creation lowers each ingredient by exactly the sum over
\* the order's items of recipe amount per unit times item quantity, and
\* leaves every ingredient no ordered recipe uses as it was
C5_DescuentoExacto ==
    [][(ret'.op = "crear_pedido" /\ ret'.ok) =>
         /\ Len(pedidos') = Len(pedidos) + 1
         /\ DOMAIN ingredientes' = DOMAIN ingredientes
         /\ \A i \in DOMAIN ingredientes :
               ingredientes'[i] = ingredientes[i]
                   - Requerido(pedidos'[Len(pedidos')].items, productos, i)
    ]_vars

\* C5 happens: an order of two items whose recipes share i1 was created and
\* took the last two units of i1
C5_Testigo ==
    /\ ret.op = "crear_pedido"
    /\ ret.ok
    /\ Len(pedidos) >= 1
    /\ Len(pedidos[Len(pedidos)].items) = 2
    /\ Requerido(pedidos[Len(pedidos)].items, productos, "i1") = 2
    /\ ingredientes["i1"] = 0

\* C7: a creation for an existing table and existing products, all of whose
\* recipe ingredients are in the inventory, succeeds exactly when, for every
\* ingredient, the requirement summed over the whole order is at most the
\* available quantity; when it fails nothing is deducted
C7_VerificacionAgregada ==
    [][(/\ ret'.op = "crear_pedido"
        /\ ret'.arg.tipo = "mesa" => ret'.arg.mesa \in 1..NumMesas
        /\ \A j \in 1..Len(ret'.arg.items) :
              ret'.arg.items[j].producto_id \in DOMAIN productos
        /\ \A i \in {"i1", "i2", "i3"} :
              Requerido(ret'.arg.items, productos, i) > 0 => i \in DOMAIN ingredientes) =>
         IF \A i \in DOMAIN ingredientes :
               Requerido(ret'.arg.items, productos, i) <= ingredientes[i]
         THEN ret'.ok
         ELSE ~ret'.ok /\ ingredientes' = ingredientes
    ]_vars

\* C7 happens: a two-item order was refused although each item alone fits
\* in stock, because the two together ask more of one ingredient than there is
C7_Testigo ==
    /\ ret.op = "crear_pedido"
    /\ ~ret.ok
    /\ ret.msg = "Stock insuficiente"
    /\ Len(ret.arg.items) = 2
    /\ \A j \in 1..2 : ret.arg.items[j].producto_id \in DOMAIN productos
    /\ \A j \in 1..2 : \A i \in {"i1", "i2", "i3"} :
          LET req == Requerido(<< ret.arg.items[j] >>, productos, i)
          IN  req > 0 => (i \in DOMAIN ingredientes /\ req <= ingredientes[i])
    /\ \E i \in DOMAIN ingredientes :
          Requerido(ret.arg.items, productos, i) > ingredientes[i]

\* ============================================== two creations at once
\* the call of thread t has stored its deduction of ingredient i
Escrito(t, i) == \E j \in 1..(loc[t].k - 1) : loc[t].orden[j] = i

\* the call of thread t has returned the deduction failure
FalloAlDescontar(t) ==
    pc[t] = "fin" /\ loc[t].res = "Error al descontar inventario"

SoloPorSobreventa ==
    \A i \in DOMAIN ingredientes :
        ingredientes[i] < 0 =>
            /\ \A t \in Threads :
                  /\ ~loc[t].faltan
                  /\ Escrito(t, i)
                  /\ loc[t].total[i] <= inicial[i]
            /\ ingredientes[i] = inicial[i] - loc[1].total[i] - loc[2].total[i]

\* C10: two creations at once can oversell. The store of a deduction writes
\* the loaded quantity less the amount with no floor at zero, and a
\* quantity is below zero exactly through two calls that both passed the
\* checks and both deducted, together more than there was
C10_Sobreventa ==
    [][/\ \A t \in Threads :
             (pc[t] = "escribir" /\ pc'[t] # "escribir") =>
                LET i == loc[t].orden[loc[t].k]
                IN  ingredientes'[i] = loc[t].tmp - loc[t].total[i]
       /\ SoloPorSobreventa'
    ]_vars

\* C10 happens: both creations returned success and an ingredient that was
\* in stock is below zero
C10_Testigo ==
    /\ \A t \in Threads : pc[t] = "fin" /\ loc[t].res = "Pedido creado correctamente"
    /\ Len(pedidos) = 2
    /\ \E i \in DOMAIN ingredientes : inicial[i] > 0 /\ ingredientes[i] < 0

\* =================================================== signs of quantities
\* C11: through add-ingredient, replenish and order creation with the
\* amounts the API accepts, every ingredient's quantity is at least zero
C11_CantidadNoNegativa ==
    \A i \in DOMAIN ingredientes : ingredientes[i] >= 0

\* C12: no order creation, whatever integer quantities its items carry,
\* increases the quantity of any ingredient
C12_DescuentoMonotono ==
    [][ret'.op = "crear_pedido" =>
         \A i \in DOMAIN ingredientes : ingredientes'[i] <= ingredientes[i]
    ]_vars

\* ================================================================ tables
\* the first sequence is the beginning of the second
EsPrefijo(a, b) == Len(a) <= Len(b) /\ SubSeq(b, 1, Len(a)) = a

\* C13: a successful table order appends the new order's id to the list of
\* the table addressed, leaves that table occupied and the other tables as
\* they were; no step of any call (charge, cancellation, other state
\* change) clears an occupied flag or takes an id off a table's list
C13_MesaNoSeLibera ==
    [][/\ (ret'.op = "crear_pedido" /\ ret'.ok /\ ret'.arg.tipo = "mesa") =>
             /\ Len(pedidos') = Len(pedidos) + 1
             /\ \A n \in DOMAIN mesas :
                   mesas'[n] =
                     IF n = ret'.arg.mesa
                     THEN [ocupada |-> TRUE,
                           pedidos_activos |->
                               Append(mesas[n].pedidos_activos,
                                      pedidos'[Len(pedidos')].id)]
                     ELSE mesas[n]
       /\ \A n \in DOMAIN mesas :
             /\ mesas[n].ocupada => mesas'[n].ocupada
             /\ EsPrefijo(mesas[n].pedidos_activos, mesas'[n].pedidos_activos)
       /\ ret'.op \in {"cobrar_pedido", "cambiar_estado_pedido", "confirmar_pedido"} =>
             mesas' = mesas
    ]_vars

\* C13 happens: the only order of table 1 has been charged and has its
\* invoice, and the table is still occupied with the order on its list
C13_Testigo ==
    /\ ret.op = "cobrar_pedido"
    /\ ret.ok
    /\ EnEstado(pedidos, ret.arg.id, "COBRADO")
    /\ mesas[1].ocupada
    /\ mesas[1].pedidos_activos = << ret.arg.id >>

\* ============================================================== invoices
\* C14: every invoice's total is the total of the order it references, the
\* sum over the order's items of quantity times captured unit price, when
\* the invoice is made and in every state after
C14_TotalDeFactura ==
    \A f \in 1..Len(facturas) :
        \E j \in 1..Len(pedidos) :
            /\ pedidos[j].id = facturas[f].pedido_id
            /\ facturas[f].total = TotalCapturado(pedidos[j].items)
            /\ facturas[f].total = calcular_total(pedidos[j])

\* C14 happens: an invoice stands for an order of several units of p1,
\* whose menu price is no longer the one the order captured
C14_Testigo ==
    \E f \in 1..Len(facturas) :
        \E j \in 1..Len(pedidos) :
            /\ pedidos[j].id = facturas[f].pedido_id
            /\ pedidos[j].items[1].producto_id = "p1"
            /\ pedidos[j].items[1].cantidad = MaxCant
            /\ pedidos[j].items[1].precio_unitario # productos["p1"].precio
            /\ facturas[f].total = MaxCant * pedidos[j].items[1].precio_unitario

\* =============================================================== reports
\* the units and the revenue of the product over the orders in that state
VendidoEn(peds, estado, pid) ==
    SumaIdx([j \in 1..Len(peds) |->
                IF peds[j].estado = estado
                THEN SumaIdx([k \in 1..Len(peds[j].items) |->
                                 IF peds[j].items[k].producto_id = pid
                                 THEN peds[j].items[k].cantidad ELSE 0],
                             Len(peds[j].items))
                ELSE 0],
            Len(peds))

IngresoEn(peds, estado, pid) ==
    SumaIdx([j \in 1..Len(peds) |->
                IF peds[j].estado = estado
                THEN SumaIdx([k \in 1..Len(peds[j].items) |->
                                 IF peds[j].items[k].producto_id = pid
                                 THEN peds[j].items[k].cantidad
                                          * peds[j].items[k].precio_unitario
                                 ELSE 0],
                             Len(peds[j].items))
                ELSE 0],
            Len(peds))

\* where the product first shows among the items of the orders in that
\* state: (order, item) positions, the earliest one
Encuentros(peds, estado, pid) ==
    { << j, k >> : j \in 1..Len(peds), k \in 1..MaxCant } \cap
    { q \in (1..Len(peds)) \X (1..MaxCant) :
        /\ peds[q[1]].estado = estado
        /\ q[2] <= Len(peds[q[1]].items)
        /\ peds[q[1]].items[q[2]].producto_id = pid }

Antes(q, r) == q[1] < r[1] \/ (q[1] = r[1] /\ q[2] < r[2])

EncuentraAntes(peds, estado, pa, pb) ==
    \E q \in Encuentros(peds, estado, pa) :
        \A r \in Encuentros(peds, estado, pb) : Antes(q, r)

\* the report lists products sold in COBRADO orders, each once, with the
\* units and revenue of its COBRADO items only, in non-increasing order of
\* units, equal units in the order of first encounter
InformeCorrecto(res) ==
    /\ \A a \in 1..Len(res) :
          /\ Encuentros(pedidos, "COBRADO", res[a].producto_id) # {}
          /\ res[a].cantidad = VendidoEn(pedidos, "COBRADO", res[a].producto_id)
          /\ res[a].ingresos = IngresoEn(pedidos, "COBRADO", res[a].producto_id)
    /\ \A a, b \in 1..Len(res) :
          a < b =>
            /\ res[a].producto_id # res[b].producto_id
            /\ res[a].cantidad >= res[b].cantidad
            /\ res[a].cantidad = res[b].cantidad =>
                  EncuentraAntes(pedidos, "COBRADO",
                                 res[a].producto_id, res[b].producto_id)

\* C15: platos_mas_vendidos(limit) counts units and revenue per product
\* over the items of COBRADO orders only, and returns at most limit entries
\* in non-increasing order of units, ties in first-encounter order (a limit
\* below zero allows no entry)
C15_MasVendidos ==
    ret.op = "platos_mas_vendidos" =>
        /\ InformeCorrecto(ret.msg)
        /\ Len(ret.msg) <= (IF ret.arg < 0 THEN 0 ELSE ret.arg)

\* the same for the limits that are not negative, where the report is the
\* first limit entries of the full list
C15_ConLimiteNoNegativo ==
    (ret.op = "platos_mas_vendidos" /\ ret.arg >= 0) =>
        /\ InformeCorrecto(ret.msg)
        /\ Len(ret.msg) <= ret.arg
        /\ ret.msg = SubSeq(platos_mas_vendidos(pedidos, 10), 1, Len(ret.msg))

\* C16: with the default threshold of 10, alertas_bajo_stock lists exactly
\* the ingredients whose quantity is strictly below 10, with level CRITICO
\* when the quantity is strictly below 5 and BAJO otherwise: 9 is BAJO, 4 is
\* CRITICO, 10 is not listed
C16_AlertasBajoStock ==
    ret.op = "alertas_bajo_stock" =>
        /\ {a.id : a \in ret.msg} = {i \in DOMAIN ingredientes : ingredientes[i] < 10}
        /\ \A a \in ret.msg :
              /\ a.cantidad_actual = ingredientes[a.id]
              /\ a.nivel = IF ingredientes[a.id] < 5 THEN "CRITICO" ELSE "BAJO"
        /\ \A a, b \in ret.msg : a.id = b.id => a = b
        /\ \A i \in DOMAIN ingredientes :
              /\ ingredientes[i] = 9 =>
                    [id |-> i, cantidad_actual |-> 9, nivel |-> "BAJO"] \in ret.msg
              /\ ingredientes[i] = 4 =>
                    [id |-> i, cantidad_actual |-> 4, nivel |-> "CRITICO"] \in ret.msg
              /\ ingredientes[i] = 10 => \A a \in ret.msg : a.id # i

\* C16 happens: the alerts were asked for with one ingredient at 9, listed
\* as BAJO, and the other at 10, not listed
C16_Testigo ==
    /\ ret.op = "alertas_bajo_stock"
    /\ DOMAIN ingredientes = {"i1", "i2"}
    /\ ingredientes["i1"] = 9
    /\ ingredientes["i2"] = 10
    /\ ret.msg = { [id |-> "i1", cantidad_actual |-> 9, nivel |-> "BAJO"] }

\* the usernames and the addresses of the registered users
NombresRegistrados == { users[i].username : i \in 1..Len(users) }
CorreosRegistrados == { users[i].email : i \in 1..Len(users) }

\* no two registered users share a username or an email, and each index
\* leads to the user that holds the key
SinDuplicados ==
    /\ \A i, j \in 1..Len(users) :
          i # j => /\ users[i].username # users[j].username
                   /\ users[i].email # users[j].email
    /\ DOMAIN users_by_username = NombresRegistrados
    /\ DOMAIN users_by_email = CorreosRegistrados
    /\ \A u \in DOMAIN users_by_username :
          users[users_by_username[u]].username = u
    /\ \A e \in DOMAIN users_by_email :
          users[users_by_email[e]].email = e

\* C17: a create_user call whose username or whose email (compared exactly,
\* case included) is already registered fails and leaves users and both
\* indexes as they were; and at every moment no two registered users share a
\* username or an email.
C17_RegistroSinDuplicados ==
    /\ []SinDuplicados
    /\ [][(ret'.op = "create_user" /\ ret' # ret
            /\ (\/ ret'.arg.username \in NombresRegistrados
                \/ ret'.arg.email \in CorreosRegistrados))
          => (~ret'.ok /\ UNCHANGED usuarios)]_vars

\* a registration was refused for its email alone, while a username that
\* differs from another only in case got registered
C17_Testigo ==
    /\ ret.op = "create_user" /\ ~ret.ok
    /\ ret.arg.email \in CorreosRegistrados
    /\ ret.arg.username \notin NombresRegistrados
    /\ {"ana", "Ana"} \subseteq NombresRegistrados

\* the token of the last request names a registered user and is accepted
TokenValido == get_current_user(users_by_username, http.token) # 0

\* the routes the specification leaves open: registration, login and reading
\* the menu; the page, its style sheet and the route index carry no data of
\* the shop and are left aside
Abiertos ==
    {"POST /auth/register", "POST /auth/login", "GET /menu/productos",
     "GET /", "GET /styles.css", "GET /api"}

\* C18: a request to any route other than registration, login and reading
\* the menu that carries no valid bearer token of a registered user is
\* answered 401, and changes nothing.
C18_TokenObligatorio ==
    [][(http' # http /\ http'.endpoint \notin Abiertos
          /\ get_current_user(users_by_username, http'.token) = 0)
       => (http'.status = 401
           /\ UNCHANGED << memoria, uuid, disco, ret, usuarios >>)]_vars

\* the routes that declare require_admin
AdminSoloRutas == { e \in Endpoints : Dependencia[e] = "require_admin" }

\* C19: on every admin-only route an authenticated user gets past the guard
\* exactly when the user's role is "administrador"; any other authenticated
\* user is answered 403 and nothing but the response changes.
C19_SoloAdministrador ==
    [][(http' # http /\ http'.endpoint \in AdminSoloRutas
          /\ get_current_user(users_by_username, http'.token) # 0)
       => LET user == users[get_current_user(users_by_username, http'.token)]
          IN  /\ (http'.status # 403) <=> (user.rol = "administrador")
              /\ user.rol # "administrador" =>
                    /\ http'.status = 403
                    /\ UNCHANGED << memoria, uuid, disco, ret, usuarios >>]_vars

\* a waiter was refused on an admin-only route, and an administrator who
\* registered as "Administrador" had created a product
C19_Testigo ==
    /\ http.endpoint \in AdminSoloRutas /\ http.status = 403
    /\ TokenValido
    /\ users[get_current_user(users_by_username, http.token)].rol = "mesero"
    /\ "p9" \in DOMAIN productos

\* C20: PATCH /pedidos/{id}/estado answers an authenticated request for an
\* unknown order, or with a token that names no state, with a 4xx status.
C20_ErroresDeDominio ==
    (/\ http.endpoint = "PATCH /pedidos/{id}/estado"
     /\ TokenValido
     /\ ret.op = "cambiar_estado_pedido" /\ ~ret.ok)
    => http.status \in 400..499

\* the ingredients of a recipe that are in no inventory, and those held in a
\* smaller quantity than the recipe asks
Ausentes(ings, orden) ==
    { i \in { orden[k] : k \in 1..Len(orden) } : i \notin DOMAIN ings }
Insuficientes(ings, orden, total) ==
    { i \in { orden[k] : k \in 1..Len(orden) } :
        i \in DOMAIN ings /\ ings[i] < total[i] }

\* C21: verificar_receta answers ok exactly when every ingredient of the
\* recipe is in the inventory in at least the amount required; its list has
\* exactly one entry for each missing ingredient and one for each
\* insufficient one; and the call changes no quantity.
C21_VerificarReceta ==
    [][(ret'.op = "verificar_receta" /\ ret' # ret)
       => LET o == ret'.arg.orden
              t == ret'.arg.total
              f == ret'.msg
          IN  /\ ret'.ok <=> (Ausentes(ingredientes, o) = {}
                              /\ Insuficientes(ingredientes, o, t) = {})
              /\ Len(f) = Cardinality(Ausentes(ingredientes, o))
                            + Cardinality(Insuficientes(ingredientes, o, t))
              /\ \A i \in Ausentes(ingredientes, o) :
                    Cardinality({ k \in 1..Len(f) : f[k].ing = i
                                    /\ f[k].motivo = "no existe" }) = 1
              /\ \A i \in Insuficientes(ingredientes, o, t) :
                    Cardinality({ k \in 1..Len(f) : f[k].ing = i
                                    /\ f[k].motivo = "insuficiente" }) = 1
              /\ UNCHANGED ingredientes]_vars

\* a recipe was verified that asks for all there is of one ingredient, more
\* than there is of another and for one that is missing
C21_Testigo ==
    /\ ret.op = "verificar_receta" /\ ~ret.ok /\ Len(ret.msg) = 2
    /\ ret.arg.orden = << "i1", "i2", "i3" >>
    /\ ingredientes["i1"] = ret.arg.total["i1"] /\ ingredientes["i1"] > 0
    /\ ingredientes["i2"] < ret.arg.total["i2"]

\* C22: descontar_receta, run alone, returns False and changes no quantity
\* when some ingredient of the recipe is missing or insufficient; otherwise
\* it returns True, takes each required amount from its ingredient and
\* leaves every other ingredient as it was.
C22_DescontarReceta ==
    [][(ret'.op = "descontar_receta" /\ ret' # ret)
       => LET o == ret'.arg.orden
              t == ret'.arg.total
              en == { o[k] : k \in 1..Len(o) }
          IN  IF Ausentes(ingredientes, o) # {} \/ Insuficientes(ingredientes, o, t) # {}
              THEN ~ret'.ok /\ UNCHANGED ingredientes
              ELSE /\ ret'.ok
                   /\ DOMAIN ingredientes' = DOMAIN ingredientes
                   /\ \A i \in DOMAIN ingredientes :
                         ingredientes'[i] = IF i \in en THEN ingredientes[i] - t[i]
                                            ELSE ingredientes[i]]_vars

\* a recipe of two ingredients was deducted, both amounts positive
C22_Testigo ==
    /\ ret.op = "descontar_receta" /\ ret.ok
    /\ ret.arg.orden = << "i2", "i1" >>
    /\ ret.arg.total["i1"] = MaxCant /\ ret.arg.total["i2"] = 1
    /\ ingredientes["i1"] = 0

\* C23: confirmar_pedido succeeds exactly for an existing order in state
\* PENDIENTE, which it moves to EN_PREPARACION; for an unknown id or an order
\* in another state it fails and no order changes.
C23_Confirmar ==
    [][(ret'.op = "confirmar_pedido" /\ ret' # ret)
       => LET k == obtener_pedido(pedidos, ret'.arg)
          IN  /\ ret'.ok <=> (k # 0 /\ pedidos[k].estado = "PENDIENTE")
              /\ ret'.ok => pedidos' = [pedidos EXCEPT ![k].estado = "EN_PREPARACION"]
              /\ ~ret'.ok => UNCHANGED pedidos]_vars

\* a confirmation was refused for an order that had been confirmed before
C23_Testigo ==
    /\ ret.op = "confirmar_pedido" /\ ~ret.ok
    /\ obtener_pedido(pedidos, ret.arg) # 0
    /\ pedidos[obtener_pedido(pedidos, ret.arg)].estado = "EN_PREPARACION"

\* C24: with calls made one at a time, after every mutating service call the
\* document of each collection is the to_dict of the collection in memory,
\* and loading the documents gives back the same products, ingredients,
\* orders (ids, items, states), invoices and users.
C24_PersistenciaFiel ==
    /\ disco = Documentos(productos, ingredientes, pedidos, facturas, users)
    /\ cargar_menu(disco.menu) = productos
    /\ cargar_inventario(disco.inventario) = ingredientes
    /\ cargar_pedidos(disco.pedidos) = pedidos
    /\ cargar_facturas(disco.facturas) = facturas
    /\ cargar_usuarios(disco.usuarios) = users

\* an order created before a restart was charged after it, with a user
\* registered and the menu and the inventory changed
C24_Testigo ==
    /\ uuid.arranque = 1
    /\ ret.op = "cobrar_pedido" /\ ret.ok
    /\ Len(users) = 1 /\ "p9" \in DOMAIN productos /\ "i3" \in DOMAIN ingredientes

\* C25: the tables are not persisted: right after a restart that loaded the
\* orders from their document, all ten tables are free with no active
\* order, whatever the states of the loaded table orders.
C25_MesasLibresAlArrancar ==
    ret.op = "reiniciar" =>
        /\ pedidos = cargar_pedidos(disco.pedidos)
        /\ DOMAIN mesas = 1..NumMesas
        /\ \A n \in DOMAIN mesas :
              ~mesas[n].ocupada /\ mesas[n].pedidos_activos = << >>

\* restarted with two table orders loaded, one EN_PREPARACION, one LISTO
C25_Testigo ==
    /\ ret.op = "reiniciar"
    /\ Len(pedidos) = 2
    /\ \A k \in 1..2 : pedidos[k].tipo = "mesa"
    /\ {pedidos[k].estado : k \in 1..2} = {"EN_PREPARACION", "LISTO"}

\* in one running process: occupied exactly when some order is listed, and
\* every listed id names a table order made for that table in this process
MesasCoherentes ==
    \A n \in DOMAIN mesas :
        /\ mesas[n].ocupada <=> mesas[n].pedidos_activos # << >>
        /\ \A j \in 1..Len(mesas[n].pedidos_activos) :
              \E k \in 1..Len(pedidos) :
                  /\ pedidos[k].id = mesas[n].pedidos_activos[j]
                  /\ pedidos[k].tipo = "mesa"
                  /\ pedidos[k].mesa_id = n + NumMesas * uuid.arranque

\* a call that created a delivery order
CreaDelivery ==
    /\ ret' # ret
    /\ ret'.op = "crear_pedido" /\ ret'.ok
    /\ Len(pedidos') = Len(pedidos) + 1
    /\ pedidos'[Len(pedidos')].tipo = "delivery"

\* C26: within one running process a table is occupied exactly when its list
\* of active orders is not empty, every id in that list is the id of an
\* existing table order whose mesa_id is that table's id, and creating a
\* delivery order changes no table.
C26_MesasYPedidos ==
    /\ []MesasCoherentes
    /\ [][CreaDelivery => mesas' = mesas]_vars

\* table 1 holds its table order and a delivery order has just been made
C26_Testigo ==
    /\ ret.op = "crear_pedido" /\ ret.ok
    /\ Len(pedidos) = 2
    /\ pedidos[1].tipo = "mesa" /\ pedidos[2].tipo = "delivery"
    /\ mesas[1].ocupada /\ mesas[1].pedidos_activos = << pedidos[1].id >>

Nombrados(items) == { items[k].producto_id : k \in 1..Len(items) }

\* the quantity of the product's last entry in the list
UltimaCantidad(items, p) ==
    LET j == CHOOSE k \in 1..Len(items) :
                 /\ items[k].producto_id = p
                 /\ \A m \in (k + 1)..Len(items) : items[m].producto_id # p
    IN  items[j].cantidad

\* sum of f over a finite set
RECURSIVE SumaSobre(_, _)
SumaSobre(f, S) ==
    IF S = {} THEN 0
    ELSE LET x == CHOOSE y \in S : TRUE IN f[x] + SumaSobre(f, S \ {x})

\* the order just created holds one item per named product with the
\* quantity of its last entry, and the total and the deduction come from
\* those quantities alone
UnItemPorProducto(items) ==
    LET nuevo == pedidos'[Len(pedidos')]
        ps    == Nombrados(items)
    IN  /\ Len(pedidos') = Len(pedidos) + 1
        /\ Len(nuevo.items) = Cardinality(ps)
        /\ \A p \in ps :
              \E k \in 1..Len(nuevo.items) :
                  /\ nuevo.items[k].producto_id = p
                  /\ nuevo.items[k].cantidad = UltimaCantidad(items, p)
        /\ calcular_total(nuevo) =
              SumaSobre([p \in ps |-> UltimaCantidad(items, p) * productos[p].precio], ps)
        /\ \A i \in DOMAIN ingredientes :
              ingredientes'[i] = ingredientes[i] -
                  SumaSobre([p \in ps |-> UltimaCantidad(items, p)
                                            * PorUnidad(productos[p].receta, i)], ps)

C29_EstadoDeCaja ==
    (/\ http.endpoint = "GET /caja/estado"
     /\ TokenValido
     /\ es_admin(users[get_current_user(users_by_username, http.token)]))
        => http.status = 200

\* a registration that succeeded: asked without a token, and the new user
\* has the class and the role of the role name sent, whatever its case
RegistroHonraElRol ==
    (http'.endpoint = "POST /auth/register" /\ http'.status = 201) =>
        LET nuevo == users'[Len(users')] IN
        /\ http'.token = SinToken
        /\ Len(users') = Len(users) + 1
        /\ nuevo.username = ret'.arg.username
        /\ ret'.arg.rol \in {"administrador", "Administrador", "ADMINISTRADOR"} =>
              nuevo.rol = "administrador" /\ es_admin(nuevo)
        /\ ret'.arg.rol = "mesero" => nuevo.rol = "mesero" /\ ~es_admin(nuevo)

\* a registered user who logs in with the password gets a token that names
\* the user
LoginEmiteToken ==
    \A k \in 1..Len(users) :
        /\ authenticate_user(users, users_by_username, users[k].username, "secreto") = k
        /\ get_current_user(users_by_username,
                            create_access_token(users[k].username)) = k

\* a request to an admin-only route with the token of a user whose role is
\* "administrador" is stopped by no guard
AdminPasaLaGuarda ==
    (/\ http'.endpoint \in AdminSoloRutas
     /\ get_current_user(users_by_username, http'.token) # 0
     /\ users[get_current_user(users_by_username, http'.token)].rol = "administrador")
        => http'.status \notin {401, 403}

\* C30: registration asks for no token and honours the role sent: someone
\* with no account registers with rol "administrador" in any letter case,
\* logs in, and then passes the admin guard of every admin-only route.
C30_RegistroDeAdministrador ==
    /\ [][RegistroHonraElRol]_vars
    /\ []LoginEmiteToken
    /\ [][AdminPasaLaGuarda]_vars

\* eva, the only user, who registered herself, created a product with the
\* token login gives her
C30_Testigo ==
    /\ http.endpoint = "POST /menu/productos" /\ http.status = 201
    /\ http.token = create_access_token("eva")
    /\ Len(users) = 1 /\ users[1].username = "eva"
    /\ "p9" \in DOMAIN productos

====
